---- MODULE Spec2Model ----
(***************************************************************************)
(* A model of the whatsapp-store synchronization engine: the event         *)
(* handlers of src/handlers (chat, contact, message), the Store that wires *)
(* them to the Baileys event emitter, and retryDatabaseOperation.          *)
(*                                                                         *)
(* The module holds several specifications over one set of variables:      *)
(*   SpecListen   listen()/unlisten() of the handlers and of the Store     *)
(*   SpecRetry    retryDatabaseOperation, one step per attempt / backoff   *)
(*   SpecChat     the chat handlers over the Chat table                    *)
(*   SpecMessage  the message handlers over the Message table              *)
(*   SpecReaction reactions and receipts of stored messages                *)
(*   SpecHistory  the first history sync of a session, in batches          *)
(*   SpecUpsertRace  two chats.upsert events for one chat, interleaved     *)
(*   SpecTxRace   two reaction/receipt transactions, interleaved           *)
(*   SpecResolve  resolveChatId / resolveContactId as functions            *)
(*   SpecAlias    the chat handler with address resolution (part_000)      *)
(*   SpecStore    the three handlers of one Store, every event kind        *)
(*   SpecIsolation  events of several records, some of whose writes fail   *)
(*   SpecContact  the contact handlers over the Contact table              *)
(*   SpecSession  the key store of useSession over the Session table       *)
(*   SpecSanitize transformPrisma and the validators as functions          *)
(*   SpecBulkRace a history chunk and an upsert of one key, interleaved    *)
(*   SpecOrder    updates of one record in one event and in two events     *)
(*   SpecBatches  messageHandler.set, one step per transaction statement   *)
(*   SpecConfig   getBatchConfig as a function of the message count        *)
(*   SpecPartition  the batches and transactions of a history of any size  *)
(* Each specification leaves the variables of the other parts idle.        *)
(***************************************************************************)
EXTENDS Integers, Sequences, FiniteSets, TLC

VARIABLES
  \* ---- event emitter and handler registration (store.ts, handlers/*.ts)
  listening,    \* handler -> BOOLEAN, the closure variable `listening`
  listeners,    \* event name -> sequence of callbacks registered with event.on
  invoked,      \* the callbacks the last emit() called, in order
  lastCall,     \* the last listen()/unlisten() call and the state it found
  \* ---- retryDatabaseOperation (utils.ts)
  rpc,          \* position in retryDatabaseOperation
  maxRetries,   \* its parameter
  attempt,      \* the loop variable
  lastError,    \* the local `lastError`
  invocations,  \* how many times operation() was invoked in this call
  delays,       \* the backoff delays waited in this call, in order
  observed,     \* the errors operation() raised in this call, in order
  outcome,      \* what the call returned or threw
  \* ---- the relational store and the handlers' observable effects
  chats,        \* the Chat table, a set of rows
  messages,     \* the Message table, a set of rows
  emitted,      \* chats.upsert events emitted by messageHandler.upsert, pending
  lastEv,       \* the event handled last (kind, session, payload, failures)
  pre,          \* the tables and pending events before that event was handled
  again,        \* TRUE iff that event repeats the one handled just before it
  logged,       \* what the handler of that event logged with logger.error
  rejected,     \* TRUE iff the handler's promise rejected (it threw)
  contacts,     \* the rows of table Contact
  tasks,        \* the handler calls in flight at once, each with its position
  \* ---- session storage (session.ts)
  sessionRows,  \* the rows of table Session
  lastKeys      \* the last call of keys.set, keys.get or saveCreds and its result

listenVars == <<listening, listeners, invoked, lastCall>>
retryVars  == <<rpc, maxRetries, attempt, lastError, invocations, delays, observed, outcome>>
storeVars  == <<chats, messages, emitted, lastEv, pre, again, logged, rejected>>
moreVars   == <<contacts, tasks>>
authVars   == <<sessionRows, lastKeys>>
vars       == <<listenVars, retryVars, storeVars, moreVars, authVars>>

-----------------------------------------------------------------------------
(* Event emitter, listen() and unlisten()                                  *)

Handlers == {"chat", "message", "contact"}

\* the events each handler registers a callback for, in source order
EventsOf(h) ==
  CASE h = "chat"    -> <<"messaging-history.set", "chats.upsert", "chats.update",
                          "chats.delete">>
    [] h = "message" -> <<"messaging-history.set", "messages.upsert", "messages.update",
                          "messages.delete", "message-receipt.update",
                          "messages.reaction">>
    [] h = "contact" -> <<"messaging-history.set", "contacts.upsert", "contacts.update">>

Range(f) == {f[i] : i \in DOMAIN f}

EventNames == UNION {Range(EventsOf(h)) : h \in Handlers}

\* a callback is identified by the handler that owns it and the event it serves
Callback(h, ev) == [handler |-> h, event |-> ev]

\* EventEmitter.on: append the listener
On(ls, ev, cb) == [ls EXCEPT ![ev] = Append(@, cb)]

RECURSIVE LastIndexOf(_, _)
LastIndexOf(seq, cb) ==
  IF seq = <<>> THEN 0
  ELSE IF seq[Len(seq)] = cb THEN Len(seq)
  ELSE LastIndexOf(SubSeq(seq, 1, Len(seq) - 1), cb)

\* EventEmitter.off: remove the most recently added instance of the listener,
\* nothing when it is not registered
Off(ls, ev, cb) ==
  LET i == LastIndexOf(ls[ev], cb)
  IN  IF i = 0 THEN ls
      ELSE [ls EXCEPT ![ev] = SubSeq(@, 1, i - 1) \o SubSeq(@, i + 1, Len(@))]

RECURSIVE OnAll(_, _, _)
OnAll(ls, h, evs) ==
  IF evs = <<>> THEN ls
  ELSE OnAll(On(ls, Head(evs), Callback(h, Head(evs))), h, Tail(evs))

RECURSIVE OffAll(_, _, _)
OffAll(ls, h, evs) ==
  IF evs = <<>> THEN ls
  ELSE OffAll(Off(ls, Head(evs), Callback(h, Head(evs))), h, Tail(evs))

\* a handler's state: its flag and the emitter's listener lists
HState(flags, ls) == [listening |-> flags, listeners |-> ls]

\* mutant: listen() without its `if (listening) return` guard
listenUnguarded(st, h) ==
  HState([st.listening EXCEPT ![h] = TRUE], OnAll(st.listeners, h, EventsOf(h)))

\* listen() of one handler
listen(st, h) ==
  IF st.listening[h] THEN st
  ELSE HState([st.listening EXCEPT ![h] = TRUE], OnAll(st.listeners, h, EventsOf(h)))

\* unlisten() of one handler
unlisten(st, h) ==
  IF ~st.listening[h] THEN st
  ELSE HState([st.listening EXCEPT ![h] = FALSE], OffAll(st.listeners, h, EventsOf(h)))

\* Store.listen(): chat, message, contact in that order
StoreListenState(st) == listen(listen(listen(st, "chat"), "message"), "contact")

\* Store.unlisten()
StoreUnlistenState(st) == unlisten(unlisten(unlisten(st, "chat"), "message"), "contact")

NoListeners == [ev \in EventNames |-> <<>>]

\* new Store(sessionId, event): the three handlers are created not listening,
\* then the constructor calls this.listen()
StoreConstructed ==
  StoreListenState(HState([h \in Handlers |-> FALSE], NoListeners))

\* a call as the observer records it: what was called, on whom, whether every
\* (resp. no) handler concerned was listening when it was made, and whether the
\* call changed the handlers' flags or the emitter's listener lists
Call(op, who, st) ==
  LET hs == IF who = "store" THEN Handlers ELSE {who}
  IN  [op |-> op, who |-> who,
       all |-> \A h \in hs : listening[h],
       none |-> \A h \in hs : ~listening[h],
       changed |-> st # HState(listening, listeners)]

ListenIdle ==
  /\ listening = StoreConstructed.listening
  /\ listeners = StoreConstructed.listeners
  /\ invoked = <<>>
  /\ lastCall = [op |-> "new Store", who |-> "store", all |-> FALSE, none |-> TRUE,
                 changed |-> TRUE]

HandlerListen(h) ==
  LET st == listen(HState(listening, listeners), h)
  IN  /\ listening' = st.listening
      /\ listeners' = st.listeners
      /\ lastCall' = Call("listen", h, st)
      /\ UNCHANGED invoked

HandlerUnlisten(h) ==
  LET st == unlisten(HState(listening, listeners), h)
  IN  /\ listening' = st.listening
      /\ listeners' = st.listeners
      /\ lastCall' = Call("unlisten", h, st)
      /\ UNCHANGED invoked

StoreListen ==
  LET st == StoreListenState(HState(listening, listeners))
  IN  /\ listening' = st.listening
      /\ listeners' = st.listeners
      /\ lastCall' = Call("listen", "store", st)
      /\ UNCHANGED invoked

StoreUnlisten ==
  LET st == StoreUnlistenState(HState(listening, listeners))
  IN  /\ listening' = st.listening
      /\ listeners' = st.listeners
      /\ lastCall' = Call("unlisten", "store", st)
      /\ UNCHANGED invoked

\* event.emit(ev, ...): every registered listener is called once per registration
Emit(ev) ==
  /\ invoked' = listeners[ev]
  /\ UNCHANGED <<listening, listeners, lastCall>>

-----------------------------------------------------------------------------
(* retryDatabaseOperation(operation, operationName, logger, maxRetries,    *)
(* baseDelay)                                                              *)

MaxRetriesArg == 3      \* the largest maxRetries a call is made with
DefaultMaxRetries == 3  \* the parameter's default, used by every caller
baseDelay == 100        \* the parameter's default

\* An error raised by operation(): Prisma's error code (or "none") and the
\* keywords its message contains.
Err(code, words) == [code |-> code, words |-> words]

ErrorKinds ==
  { Err("P2034", {}),                  \* transaction conflict / deadlock code
    Err("none", {"deadlock"}),         \* message containing 'deadlock'
    Err("none", {"write conflict"}),   \* message containing 'write conflict'
    Err("P2002", {}),                  \* unique constraint violation
    Err("P2028", {"timeout"}) }        \* transaction timeout

\* error.message.includes(word)
MessageIncludes(e, word) == word \in e.words

\* mutant: every error is retried
IsRetryableAlways(e) == TRUE

\* mutant: only the error code is looked at
IsRetryableCodeOnly(e) == e.code = "P2034"

\* the condition of the `if` that guards the retry
IsRetryable(e) ==
  \/ e.code = "P2034"
  \/ MessageIncludes(e, "deadlock")
  \/ MessageIncludes(e, "write conflict")

\* mutant: one retry too few
HasAttemptsLeftOffByOne(a, m) == a < m - 1

\* mutant: one retry too many
HasAttemptsLeftOneMore(a, m) == a <= m

\* `attempt < maxRetries`
HasAttemptsLeft(a, m) == a < m

RECURSIVE Pow2(_)
Pow2(n) == IF n <= 0 THEN 1 ELSE 2 * Pow2(n - 1)

\* Math.random() * 100 is some value in [0, 100): its integer part
Jitter == {0, 99}

\* baseDelay * Math.pow(2, attempt - 1) + jitter
Delay(a, jitter) == baseDelay * Pow2(a - 1) + jitter

\* an error as one attempt raised it: the error object of that attempt
Raised(e, a) == [error |-> e, at |-> a]

\* mutant: the error is wrapped in a new Error, as handleDatabaseError does
RethrownWrapped(err) == [error |-> Err("none", {"Database operation failed"}), at |-> err.at]

\* `throw error`: the caught error object itself
Rethrown(err) == err

NoError == [error |-> Err("undefined", {}), at |-> 0]
NoOutcome == [kind |-> "none"]

RetryIdle ==
  /\ rpc = "idle"
  /\ maxRetries = DefaultMaxRetries
  /\ attempt = 0
  /\ lastError = NoError
  /\ invocations = 0
  /\ delays = <<>>
  /\ observed = <<>>
  /\ outcome = NoOutcome

\* a call of retryDatabaseOperation: `let lastError`, then the loop's first test
RetryCall(m) ==
  /\ rpc \in {"idle", "returned", "thrown"}
  /\ maxRetries' = m
  /\ attempt' = 1
  /\ lastError' = NoError
  /\ invocations' = 0
  /\ delays' = <<>>
  /\ observed' = <<>>
  /\ IF 1 <= m
     THEN rpc' = "try" /\ outcome' = NoOutcome
     ELSE rpc' = "thrown" /\ outcome' = [kind |-> "thrown", value |-> NoError]

\* `return await operation()` when the operation fulfils
AttemptSucceeds ==
  /\ rpc = "try"
  /\ invocations' = invocations + 1
  /\ rpc' = "returned"
  /\ outcome' = [kind |-> "returned", value |-> [result |-> "ok", at |-> attempt]]
  /\ UNCHANGED <<maxRetries, attempt, lastError, delays, observed>>

\* the catch block when the operation rejects with e
AttemptFails(e, jitter) ==
  /\ rpc = "try"
  /\ invocations' = invocations + 1
  /\ lastError' = Raised(e, attempt)
  /\ observed' = Append(observed, Raised(e, attempt))
  /\ IF IsRetryable(e) /\ HasAttemptsLeft(attempt, maxRetries)
     THEN /\ rpc' = "wait"
          /\ delays' = Append(delays, Delay(attempt, jitter))
          /\ outcome' = outcome
     ELSE /\ rpc' = "thrown"
          /\ delays' = delays
          /\ outcome' = [kind |-> "thrown", value |-> Rethrown(Raised(e, attempt))]
  /\ UNCHANGED <<maxRetries, attempt>>

\* the timer fires: `continue`, attempt++, and the loop test
BackoffElapses ==
  /\ rpc = "wait"
  /\ attempt' = attempt + 1
  /\ IF attempt + 1 <= maxRetries
     THEN rpc' = "try" /\ outcome' = outcome
     ELSE rpc' = "thrown" /\ outcome' = [kind |-> "thrown", value |-> lastError]
  /\ UNCHANGED <<maxRetries, lastError, invocations, delays, observed>>

-----------------------------------------------------------------------------
(* The relational store as the handlers see it through the Prisma client.  *)
(* A table is a set of rows; a row and an incoming record are functions    *)
(* from field names to values, an unset (NULL / undefined) field being     *)
(* absent from the domain.                                                 *)

Sessions == {"A", "B"}
ChatIds == {"x", "y"}

MaxUnread == 5   \* stored unreadCount values explored: -1 .. MaxUnread

NullValue == "<null>"          \* a field sent as null or undefined
FunctionValue == "<function>"  \* a field holding a function
StringFields == {"name", "pushName"}

Has(r, k) == k \in DOMAIN r

\* { ...a, ...b }: the fields of b win
Spread(a, b) == b @@ a

\* transformPrisma(data): a shallow copy without the keys whose value is a
\* function, null or undefined; numbers go through toNumber unchanged
transformPrisma(data) ==
  [k \in {f \in DOMAIN data :
            ~(f \in StringFields /\ data[f] \in {NullValue, FunctionValue})}
     |-> data[k]]

\* the result of one storage call: the table it leaves and whether it fulfilled
Fulfilled(t) == [ok |-> TRUE, table |-> t]
Rejected(t) == [ok |-> FALSE, table |-> t]

\* rows selected by a `where` of equalities
ByWhere(t, where) == {r \in t : \A f \in DOMAIN where : Has(r, f) /\ r[f] = where[f]}

\* `where: { sessionId_id: { id, sessionId } }`
ByKey(t, s, id) == ByWhere(t, [sessionId |-> s, id |-> id])

\* a write whose data holds a function, or whose unique `where` has no id, is
\* refused by the client (PrismaClientValidationError)
Valid(data) ==
  /\ Has(data, "id")
  /\ \A f \in DOMAIN data \cap StringFields : data[f] # FunctionValue

NumericFields == {"unreadCount", "conversationTimestamp", "status", "messageTimestamp"}

\* Prisma's atomic number operations; a plain number in `update` is a set
Increment(n) == [op |-> "increment", n |-> n]
Set(n) == [op |-> "set", n |-> n]
AsUpdate(data) ==
  [k \in DOMAIN data |-> IF k \in NumericFields THEN Set(data[k]) ELSE data[k]]

\* the row an UPDATE leaves: fields of `update` overwrite, `increment` adds to
\* the stored number and leaves a NULL column NULL
UpdatedRow(r, update) ==
  LET keeps(f) == f \in NumericFields /\ Has(update, f)
                  /\ update[f].op = "increment" /\ ~Has(r, f)
      fields == (DOMAIN r \cup DOMAIN update) \ {f \in DOMAIN update : keeps(f)}
  IN  [f \in fields |->
         IF ~Has(update, f) THEN r[f]
         ELSE IF f \notin NumericFields THEN update[f]
         ELSE IF update[f].op = "increment" THEN r[f] + update[f].n
         ELSE update[f].n]

\* mutant: an upsert that only inserts and fails on the unique key otherwise
PrismaUpsertInsertOnly(t, where, create, update) ==
  IF ByWhere(t, where) # {} THEN Rejected(t) ELSE Fulfilled(t \cup {create})

\* prisma.<model>.upsert({ create, update, where }), `where` a unique key
PrismaUpsert(t, where, create, update) ==
  IF ByWhere(t, where) # {}
  THEN Fulfilled((t \ ByWhere(t, where))
                 \cup {UpdatedRow(r, update) : r \in ByWhere(t, where)})
  ELSE Fulfilled(t \cup {create})

\* prisma.<model>.update({ data, where }): P2025 when no row matches
PrismaUpdate(t, where, update) ==
  IF ByWhere(t, where) # {}
  THEN Fulfilled((t \ ByWhere(t, where))
                 \cup {UpdatedRow(r, update) : r \in ByWhere(t, where)})
  ELSE Rejected(t)

\* the orders in which n concurrently issued writes can reach the database
Orders(n) ==
  {o \in [1..n -> 1..n] : \A i, j \in 1..n : i # j => o[i] # o[j]}

NoEvent == [kind |-> "none"]
Tables == [chats |-> chats, messages |-> messages, emitted |-> emitted,
           contacts |-> contacts]


\* what a handler did: the table it leaves, what it logged as an error, and
\* whether its promise rejected
Handled(t, log, rej) == [table |-> t, logged |-> log, rejected |-> rej]

\* an event as the observer records it; `fails` are the storage calls that a
\* storage error hits (0 stands for the handler's one transaction)
Event(kind, s, payload, isLatest, order, fails) ==
  [kind |-> kind, sessionId |-> s, payload |-> payload, isLatest |-> isLatest,
   order |-> order, fails |-> fails]

SameEvent(e, f) ==
  /\ e.kind = f.kind
  /\ e.sessionId = f.sessionId
  /\ e.isLatest = f.isLatest
  /\ e.payload = f.payload

Observe(ev, res) ==
  /\ lastEv' = ev
  /\ pre' = Tables
  /\ again' = (lastEv.kind # "none" /\ SameEvent(ev, lastEv)
               /\ ev.fails = {} /\ lastEv.fails = {})
  /\ logged' = res.logged
  /\ rejected' = res.rejected

-----------------------------------------------------------------------------
(* chatHandler (src/handlers/chat.ts)                                      *)

CHAT_BATCH_SIZE == 100

\* tx.chat.createMany({ data }): all rows or, on a refused row or a duplicate
\* of the unique key (sessionId, id), none
CreateMany(t, rows) ==
  IF \/ \E i \in DOMAIN rows : ~Valid(rows[i])
     \/ \E i, j \in DOMAIN rows : i # j /\ rows[i].id = rows[j].id
                                        /\ rows[i].sessionId = rows[j].sessionId
     \/ \E i \in DOMAIN rows : ByKey(t, rows[i].sessionId, rows[i].id) # {}
  THEN Rejected(t)
  ELSE Fulfilled(t \cup Range(rows))

Min(a, b) == IF a < b THEN a ELSE b

\* the loop `for (i = 0; i < newChats.length; i += BATCH_SIZE)`
RECURSIVE CreateInBatches(_, _, _)
CreateInBatches(t, rows, size) ==
  IF rows = <<>> THEN Fulfilled(t)
  ELSE LET n == Min(size, Len(rows))
           r == CreateMany(t, SubSeq(rows, 1, n))
       IN  IF r.ok THEN CreateInBatches(r.table, SubSeq(rows, n + 1, Len(rows)), size)
           ELSE r

IdOf(c) == IF Has(c, "id") THEN c.id ELSE "undefined"

\* mutant: the session's chats are deleted whatever isLatest says
chatSetTxAlwaysDeletes(t, s, cs, isLatest) ==
  LET t1 == {r \in t : r.sessionId # s}
      newChats == SelectSeq(cs, LAMBDA c : TRUE)
      rows == [i \in DOMAIN newChats |->
                 Spread(transformPrisma(newChats[i]), [sessionId |-> s])]
  IN  CreateInBatches(t1, rows, CHAT_BATCH_SIZE)

\* mutant: the session's chats are never deleted
chatSetTxNeverDeletes(t, s, cs, isLatest) ==
  LET existingIds == {r.id : r \in {q \in t : q.sessionId = s
                                              /\ \E i \in DOMAIN cs : IdOf(cs[i]) = q.id}}
      newChats == SelectSeq(cs, LAMBDA c : IdOf(c) \notin existingIds)
      rows == [i \in DOMAIN newChats |->
                 Spread(transformPrisma(newChats[i]), [sessionId |-> s])]
  IN  CreateInBatches(t, rows, CHAT_BATCH_SIZE)

\* the body of the transaction of `set`
chatSetTx(t, s, cs, isLatest) ==
  LET t1 == IF isLatest THEN {r \in t : r.sessionId # s} ELSE t
      existingIds == {r.id : r \in {q \in t1 : q.sessionId = s
                                               /\ \E i \in DOMAIN cs : IdOf(cs[i]) = q.id}}
      newChats == SelectSeq(cs, LAMBDA c : IdOf(c) \notin existingIds)
      rows == [i \in DOMAIN newChats |->
                 Spread(transformPrisma(newChats[i]), [sessionId |-> s])]
  IN  CreateInBatches(t1, rows, CHAT_BATCH_SIZE)

\* mutant: a failed transaction keeps what it wrote before the failure
chatSetNoRollback(t, s, cs, isLatest, fails) ==
  LET r == IF 0 \in fails THEN Rejected(t) ELSE chatSetTx(t, s, cs, isLatest)
  IN  IF r.ok THEN Handled(r.table, <<>>, FALSE)
      ELSE Handled(r.table, <<"An error occured during chats set">>, FALSE)

\* set: 'messaging-history.set'
chatSet(t, s, cs, isLatest, fails) ==
  LET r == IF 0 \in fails THEN Rejected(t) ELSE chatSetTx(t, s, cs, isLatest)
  IN  IF r.ok THEN Handled(r.table, <<>>, FALSE)
      ELSE Handled(t, <<"An error occured during chats set">>, FALSE)

\* the concurrent upserts of `upsert`, reaching the database in `order`;
\* result: the table and the indices of the promises that fulfilled
RECURSIVE chatUpsertEach(_, _, _, _, _, _)
chatUpsertEach(t, s, datas, order, fails, k) ==
  IF k > Len(datas) THEN [table |-> t, fulfilled |-> {}]
  ELSE LET i == order[k]
           data == datas[i]
           r == IF i \in fails \/ ~Valid(data) THEN Rejected(t)
                ELSE PrismaUpsert(t, [sessionId |-> s, id |-> data.id],
                                  Spread(data, [sessionId |-> s]), AsUpdate(data))
           rest == chatUpsertEach(r.table, s, datas, order, fails, k + 1)
       IN  [table |-> rest.table,
            fulfilled |-> rest.fulfilled \cup (IF r.ok THEN {i} ELSE {})]

\* upsert: 'chats.upsert'. Promise.any rejects only when no upsert fulfils
chatUpsert(t, s, cs, order, fails) ==
  LET datas == [i \in DOMAIN cs |-> transformPrisma(cs[i])]
      r == chatUpsertEach(t, s, datas, order, fails, 1)
  IN  Handled(r.table,
              IF r.fulfilled = {} THEN <<"An error occured during chats upsert">>
              ELSE <<>>,
              FALSE)

\* mutant: the update branch always increments
unreadCountUpdateAlwaysIncrement(data) == Increment(data.unreadCount)

\* mutant: the update branch overwrites
unreadCountUpdateOverwrite(data) == Set(data.unreadCount)

\* the `unreadCount` of the update branch, for a numeric data.unreadCount
unreadCountUpdate(data) ==
  IF data.unreadCount > 0 THEN Increment(data.unreadCount) ELSE Set(data.unreadCount)

\* update: 'chats.update', one record after the other
RECURSIVE chatUpdateFrom(_, _, _, _, _)
chatUpdateFrom(t, s, updates, fails, k) ==
  IF k > Len(updates) THEN Handled(t, <<>>, FALSE)
  ELSE LET update == updates[k]
           data == transformPrisma(update)
           upd == IF Has(data, "unreadCount")
                  THEN Spread(AsUpdate(data), [unreadCount |-> unreadCountUpdate(data)])
                  ELSE AsUpdate(data)
           r == IF ~Has(update, "id") THEN Fulfilled(t)
                ELSE IF k \in fails \/ ~Valid(data) THEN Rejected(t)
                ELSE PrismaUpsert(t, [sessionId |-> s, id |-> update.id],
                                  Spread(data, [id |-> update.id, sessionId |-> s]), upd)
           rest == chatUpdateFrom(r.table, s, updates, fails, k + 1)
       IN  Handled(rest.table,
                   (IF r.ok THEN <<>> ELSE <<"An error occured during chat update">>)
                     \o rest.logged,
                   FALSE)

\* mutant: the first record whose write fails ends the loop
chatUpdateAbortsOnFailure(t, s, updates, fails) ==
  LET failing == {k \in DOMAIN updates : k \in fails /\ Has(updates[k], "id")}
      last == IF failing = {} THEN Len(updates)
              ELSE CHOOSE k \in failing : \A j \in failing : k <= j
  IN  chatUpdateFrom(t, s, SubSeq(updates, 1, last), fails, 1)

chatUpdate(t, s, updates, fails) == chatUpdateFrom(t, s, updates, fails, 1)

\* mutant: a delete restricted to the handler's session
chatDelOwnSession(t, s, ids, fails) ==
  IF 0 \in fails THEN Handled(t, <<"An error occured during chats delete">>, FALSE)
  ELSE Handled({r \in t : ~(r.sessionId = s /\ r.id \in Range(ids))}, <<>>, FALSE)

\* del: 'chats.delete': deleteMany({ where: { id: { in: ids } } })
chatDel(t, s, ids, fails) ==
  IF 0 \in fails THEN Handled(t, <<"An error occured during chats delete">>, FALSE)
  ELSE Handled({r \in t : r.id \notin Range(ids)}, <<>>, FALSE)


\* ---- the chat events explored
C(id) == [id |-> id]
CU(id, n) == [id |-> id, unreadCount |-> n]
NoId(n) == [unreadCount |-> n]

UnreadIn == {-1, 0, 1, 2}   \* incoming unreadCount values

\* Session "A" receives the full set of events, with every unreadCount for
\* chat "x" and chat "y" as the second record of an event; session "B" is the
\* second tenant of the same tables and receives the events that give it a row
\* with the same id.
ChatUpdateLists(s) ==
  IF s = "A"
  THEN {<<CU("x", d)>> : d \in UnreadIn}
       \cup { <<C("x")>>, <<NoId(1)>>, <<[id |-> "x", name |-> NullValue]>>,
              <<CU("x", 1), CU("y", 0)>>, <<NoId(1), CU("y", 0)>>,
              <<CU("x", 1), CU("x", 2)>> }
  ELSE {<<CU("x", 2)>>}

ChatUpsertLists(s) ==
  IF s = "A"
  THEN { <<>>, <<C("x")>>, <<CU("x", 1)>>, <<CU("x", 2)>>, <<CU("y", 0)>>,
         <<[id |-> "x", unreadCount |-> -1, name |-> NullValue]>>,
         <<CU("x", 1), CU("y", 0)>>, <<CU("x", 1), CU("x", 2)>>,
         <<NoId(1), CU("x", 1)>> }
  ELSE {<<CU("x", 2)>>}

ChatSetLists(s) ==
  IF s = "A"
  THEN { <<>>, <<C("x")>>, <<CU("x", 1)>>, <<C("x"), CU("y", 0)>>,
         <<C("x"), CU("x", 1)>>, <<NoId(1)>> }
  ELSE {<<C("x")>>}

ChatDelLists(s) ==
  IF s = "A" THEN {<<>>, <<"x">>, <<"x", "y">>} ELSE {<<"y">>}

\* the storage calls of an event that a storage error may hit
FailChoices(n) == SUBSET (1..n)
TxFailChoices == {{}, {0}}

InRange(t) == \A r \in t : Has(r, "unreadCount") => r.unreadCount <= MaxUnread

StoreIdle ==
  /\ chats = {}
  /\ messages = {}
  /\ emitted = {}
  /\ lastEv = NoEvent
  /\ pre = [chats |-> {}, messages |-> {}, emitted |-> {}, contacts |-> {}]
  /\ again = FALSE
  /\ logged = <<>>
  /\ rejected = FALSE

ChatSet ==
  \E s \in Sessions, isLatest \in BOOLEAN, fails \in TxFailChoices :
    \E cs \in ChatSetLists(s) :
      LET res == chatSet(chats, s, cs, isLatest, fails)
      IN  /\ chats' = res.table
          /\ Observe(Event("messaging-history.set", s, cs, isLatest, <<>>, fails), res)
          /\ UNCHANGED <<messages, emitted, listenVars, retryVars, authVars, moreVars>>

ChatUpsert ==
  \E s \in Sessions : \E cs \in ChatUpsertLists(s) :
    \E order \in Orders(Len(cs)), fails \in FailChoices(Len(cs)) :
      LET res == chatUpsert(chats, s, cs, order, fails)
      IN  /\ chats' = res.table
          /\ Observe(Event("chats.upsert", s, cs, FALSE, order, fails), res)
          /\ UNCHANGED <<messages, emitted, listenVars, retryVars, authVars, moreVars>>

ChatUpdate ==
  \E s \in Sessions : \E updates \in ChatUpdateLists(s) :
    \E fails \in FailChoices(Len(updates)) :
      LET res == chatUpdate(chats, s, updates, fails)
      IN  /\ InRange(res.table)
          /\ chats' = res.table
          /\ Observe(Event("chats.update", s, updates, FALSE, <<>>, fails), res)
          /\ UNCHANGED <<messages, emitted, listenVars, retryVars, authVars, moreVars>>

ChatDel ==
  \E s \in Sessions, fails \in TxFailChoices : \E ids \in ChatDelLists(s) :
    LET res == chatDel(chats, s, ids, fails)
    IN  /\ chats' = res.table
        /\ Observe(Event("chats.delete", s, ids, FALSE, <<>>, fails), res)
        /\ UNCHANGED <<messages, emitted, listenVars, retryVars, authVars, moreVars>>

-----------------------------------------------------------------------------
(***************************************************************************)
(* messageHandler (the message handler of src/handlers)                    *)
(***************************************************************************)
\* addresses: a user, the same user device-qualified, a group, a participant
UserJid == "x@s.whatsapp.net"
DeviceJid == "x:7@s.whatsapp.net"
GroupJid == "g@g.us"
ParticipantJid == "p@s.whatsapp.net"
LidJid == "a@lid"             \* an alias (hidden/local form) of UserJid
LidDeviceJid == "a:7@lid"
OtherLid == "b@lid"
ThirdJid == "y@s.whatsapp.net"

\* jidNormalizedUser(jid): the address without its device part
\* (the empty string for an address that cannot be decoded)
jidNormalizedUser(jid) ==
  IF jid = DeviceJid THEN UserJid
  ELSE IF jid = LidDeviceJid THEN LidJid
  ELSE IF jid = "undefined" THEN ""
  ELSE jid

\* the `getJid` parameter: the Store constructs the handler without one
getJidGiven == FALSE
getJid(id) == "undefined"

\* resolveRemoteJid(key)
resolveRemoteJid(key) ==
  LET jidByLid == IF getJidGiven THEN getJid(key.id) ELSE "undefined"
  IN  jidNormalizedUser(IF jidByLid # "undefined" THEN jidByLid ELSE key.remoteJid)

\* getKeyAuthor(key)
getKeyAuthor(key) ==
  IF Has(key, "fromMe") /\ key.fromMe THEN "me"
  ELSE IF Has(key, "participant") /\ key.participant # "" THEN key.participant
  ELSE IF Has(key, "remoteJid") /\ key.remoteJid # "" THEN key.remoteJid
  ELSE ""

\* the fields of the Message schema that validateMessageData lets through
validFields ==
  { "pkId", "sessionId", "remoteJid", "id", "agentId", "bizPrivacyStatus",
    "broadcast", "clearMedia", "duration", "ephemeralDuration", "ephemeralOffToOn",
    "ephemeralOutOfSync", "ephemeralStartTimestamp", "finalLiveLocation",
    "futureproofData", "ignore", "keepInChat", "key", "labels",
    "mediaCiphertextSha256", "mediaData", "message", "messageC2STimestamp",
    "messageSecret", "messageStubParameters", "messageStubType", "messageTimestamp",
    "multicast", "originalSelfAuthorUserJidString", "participant", "paymentInfo",
    "photoChange", "pollAdditionalMetadata", "pollUpdates", "pushName",
    "quotedPaymentInfo", "quotedStickerData", "reactions", "revokeMessageTimestamp",
    "starred", "status", "statusAlreadyViewed", "statusPsa", "urlNumber", "urlText",
    "userReceipt", "verifiedBizName", "eventResponses" }

\* validateMessageData(data), for data whose timestamps are numbers: the
\* fields outside the schema are deleted
validateMessageData(data) == [k \in DOMAIN data \cap validFields |-> data[k]]

\* the outcome of one attempt of a storage operation: success or an error
Ok == Err("ok", {})
Deadlock == Err("P2034", {})
Timeout == Err("P2028", {"timeout"})

\* retryDatabaseOperation as a function of the attempts' outcomes `fate`;
\* ok iff an attempt succeeded
RECURSIVE RetryResult(_, _, _)
RetryResult(fate, m, a) ==
  IF a > m THEN [ok |-> FALSE, invocations |-> m]
  ELSE IF fate[a] = Ok THEN [ok |-> TRUE, invocations |-> a]
  ELSE IF IsRetryable(fate[a]) /\ HasAttemptsLeft(a, m) THEN RetryResult(fate, m, a + 1)
  ELSE [ok |-> FALSE, invocations |-> a]

\* the handlers call it with the default maxRetries
Retried(fate) == RetryResult(fate, DefaultMaxRetries, 1)

\* the fates explored: success, success after a deadlock, a timeout, and
\* deadlocks on every attempt
Fates == { <<Ok>>, <<Deadlock, Ok>>, <<Timeout>>, <<Deadlock, Deadlock, Deadlock>> }

\* `where: { sessionId_remoteJid_id: { sessionId, remoteJid, id } }`
MessageWhere(s, key) ==
  [sessionId |-> s, remoteJid |-> resolveRemoteJid(key), id |-> key.id]

\* mutant: the thresholds themselves fall in the higher tier
getBatchConfigInclusive(messageCount) ==
  IF messageCount >= 10000
  THEN [BATCH_SIZE |-> 10, MAX_CONCURRENT_BATCHES |-> 2, TIMEOUT |-> 45000]
  ELSE IF messageCount >= 5000
  THEN [BATCH_SIZE |-> 15, MAX_CONCURRENT_BATCHES |-> 2, TIMEOUT |-> 30000]
  ELSE IF messageCount >= 1000
  THEN [BATCH_SIZE |-> 25, MAX_CONCURRENT_BATCHES |-> 3, TIMEOUT |-> 25000]
  ELSE [BATCH_SIZE |-> 50, MAX_CONCURRENT_BATCHES |-> 4, TIMEOUT |-> 20000]

\* getBatchConfig(messageCount)
getBatchConfig(messageCount) ==
  IF messageCount > 10000
  THEN [BATCH_SIZE |-> 10, MAX_CONCURRENT_BATCHES |-> 2, TIMEOUT |-> 45000]
  ELSE IF messageCount > 5000
  THEN [BATCH_SIZE |-> 15, MAX_CONCURRENT_BATCHES |-> 2, TIMEOUT |-> 30000]
  ELSE IF messageCount > 1000
  THEN [BATCH_SIZE |-> 25, MAX_CONCURRENT_BATCHES |-> 3, TIMEOUT |-> 25000]
  ELSE [BATCH_SIZE |-> 50, MAX_CONCURRENT_BATCHES |-> 4, TIMEOUT |-> 20000]

\* mutant: only full batches are pushed
BatchesFullOnly(msgs, size) ==
  [b \in 1..(Len(msgs) \div size) |-> SubSeq(msgs, (b - 1) * size + 1, b * size)]

\* the loop `for (i = 0; i < messages.length; i += BATCH_SIZE) batches.push(...)`
Batches(msgs, size) ==
  [b \in 1..((Len(msgs) + size - 1) \div size) |->
     SubSeq(msgs, (b - 1) * size + 1, Min(b * size, Len(msgs)))]

\* tx.message.createMany({ data, skipDuplicates: true }): a row whose unique
\* key is stored, or is that of an earlier row of `data`, is skipped
CreateManySkipDuplicates(t, rows) ==
  LET KeyOf(r) == [sessionId |-> r.sessionId, remoteJid |-> r.remoteJid, id |-> r.id]
      inserted == {i \in DOMAIN rows :
                     /\ ByWhere(t, KeyOf(rows[i])) = {}
                     /\ \A j \in 1..(i - 1) : KeyOf(rows[j]) # KeyOf(rows[i])}
  IN  t \cup {rows[i] : i \in inserted}

\* the loop `for (const updateOp of messagesToUpdate) await tx.message.update(updateOp)`
RECURSIVE UpdateEach(_, _, _)
UpdateEach(t, s, ms) ==
  IF ms = <<>> THEN Fulfilled(t)
  ELSE LET r == PrismaUpdate(t, MessageWhere(s, Head(ms).key),
                             AsUpdate(validateMessageData(transformPrisma(Head(ms)))))
       IN  IF r.ok THEN UpdateEach(r.table, s, Tail(ms)) ELSE Rejected(t)

\* the transaction of one batch of `set`
messageSetTx(t, s, batch) ==
  LET existing(m) == ByWhere(t, MessageWhere(s, m.key)) # {}
      messagesToCreate == SelectSeq(batch, LAMBDA m : ~existing(m))
      messagesToUpdate == SelectSeq(batch, existing)
      validatedMessages ==
        [i \in DOMAIN messagesToCreate |->
           validateMessageData(Spread(transformPrisma(messagesToCreate[i]),
                                      MessageWhere(s, messagesToCreate[i].key)))]
      r == UpdateEach(CreateManySkipDuplicates(t, validatedMessages), s, messagesToUpdate)
  IN  IF r.ok THEN r ELSE Rejected(t)

\* the batches `group` of one Promise.all, committed in the order `order`
\* ranks them; result: the table and the batches whose transaction failed
RECURSIVE messageSetGroup(_, _, _, _, _, _)
messageSetGroup(t, s, batches, group, order, fails) ==
  IF group = {} THEN [table |-> t, failed |-> {}]
  ELSE LET b == CHOOSE i \in group : \A j \in group : order[i] <= order[j]
           r == IF b \in fails THEN Rejected(t) ELSE messageSetTx(t, s, batches[b])
           rest == messageSetGroup(r.table, s, batches, group \ {b}, order, fails)
       IN  [table |-> rest.table,
            failed |-> rest.failed \cup (IF r.ok THEN {} ELSE {b})]

\* the loop `for (i = 0; i < batches.length; i += MAX_CONCURRENT_BATCHES)`: a
\* failed batch logs and re-throws, the outer catch logs and re-throws
RECURSIVE messageSetFrom(_, _, _, _, _, _, _)
messageSetFrom(t, s, batches, conc, order, fails, i) ==
  IF i > Len(batches) THEN Handled(t, <<>>, FALSE)
  ELSE LET g == messageSetGroup(t, s, batches, i .. Min(i + conc - 1, Len(batches)),
                                order, fails)
       IN  IF g.failed # {}
           THEN Handled(g.table,
                        <<"Error processing message batch",
                          "An error occured during messages set">>, TRUE)
           ELSE messageSetFrom(g.table, s, batches, conc, order, fails, i + conc)

\* set: 'messaging-history.set'
messageSet(t, s, msgs, order, fails) ==
  LET config == getBatchConfig(Len(msgs))
  IN  messageSetFrom(t, s, Batches(msgs, config.BATCH_SIZE),
                     config.MAX_CONCURRENT_BATCHES, order, fails, 1)

\* toNumber(message.messageTimestamp): 0 for a missing timestamp
toNumber(m, f) == IF Has(m, f) THEN m[f] ELSE 0

\* the tables and the emitter as `upsert` sees them
Stores(ms, cs, em) == [messages |-> ms, chats |-> cs, emitted |-> em]

\* a 'chats.upsert' event emitted by the message handler, as the chat
\* handler of the same session receives it
ChatsUpsertEmitted(s, cs) == [sessionId |-> s, chats |-> cs]

\* the emitted events the chat handler has been started for reach the Chat
\* table
RECURSIVE Landed(_, _)
Landed(cs, em) ==
  IF em = {} THEN cs
  ELSE LET e == CHOOSE x \in em : TRUE
       IN  Landed(chatUpsert(cs, e.sessionId, e.chats, <<1>>, {}).table, em \ {e})

\* mutant: the chat is announced for every handled type of upsert
AnnouncesChatAlways(type, chatExists) == ~chatExists

\* `type === 'notify' && !chatExists`
AnnouncesChat(type, chatExists) == type = "notify" /\ ~chatExists

\* upsert: 'messages.upsert', one message after the other; after the
\* messages in `lands` the chat upserts emitted so far have reached the table
RECURSIVE messageUpsertFrom(_, _, _, _, _, _, _)
messageUpsertFrom(st, s, msgs, type, fates, lands, k) ==
  IF k > Len(msgs) \/ type \notin {"append", "notify"}
  THEN Spread(Handled(st.messages, <<>>, FALSE), [chats |-> st.chats, emitted |-> st.emitted])
  ELSE LET message == msgs[k]
           jid == resolveRemoteJid(message.key)
           data == transformPrisma(message)
           validatedData == validateMessageData(data)
           where == MessageWhere(s, message.key)
           r == IF Retried(fates[k]).ok
                THEN PrismaUpsert(st.messages, where, Spread(validatedData, where),
                                  AsUpdate(validatedData))
                ELSE Rejected(st.messages)
           chatExists == ByWhere(st.chats, [id |-> jid, sessionId |-> s]) # {}
           em == IF r.ok /\ AnnouncesChat(type, chatExists)
                 THEN st.emitted
                      \cup {ChatsUpsertEmitted(s,
                              <<[id |-> jid,
                                 conversationTimestamp |-> toNumber(message, "messageTimestamp"),
                                 unreadCount |-> 1]>>)}
                 ELSE st.emitted
           next == IF k \in lands THEN Stores(r.table, Landed(st.chats, em), {})
                   ELSE Stores(r.table, st.chats, em)
           rest == messageUpsertFrom(next, s, msgs, type, fates, lands, k + 1)
       IN  [rest EXCEPT !.logged =
              (IF r.ok THEN <<>> ELSE <<"An error occured during message upsert">>) \o @]

messageUpsert(st, s, msgs, type, fates, lands) ==
  messageUpsertFrom(st, s, msgs, type, fates, lands, 1)

\* the transaction of `update` for one { key, update }
messageUpdateTx(t, s, key, update) ==
  LET where == MessageWhere(s, key)
      prevData == ByWhere(t, where)
  IN  IF prevData = {} THEN Fulfilled(t)
      ELSE LET data == Spread(CHOOSE r \in prevData : TRUE, update)
               validatedData == validateMessageData(transformPrisma(data))
           IN  PrismaUpsert(t, where, Spread(validatedData, where), AsUpdate(validatedData))

\* update: 'messages.update'
RECURSIVE messageUpdateFrom(_, _, _, _, _)
messageUpdateFrom(t, s, updates, fates, k) ==
  IF k > Len(updates) THEN Handled(t, <<>>, FALSE)
  ELSE LET r == IF Retried(fates[k]).ok
                THEN messageUpdateTx(t, s, updates[k].key, updates[k].update)
                ELSE Rejected(t)
           rest == messageUpdateFrom(r.table, s, updates, fates, k + 1)
       IN  [rest EXCEPT !.logged =
              (IF r.ok THEN <<>> ELSE <<"An error occured during message update">>) \o @]

messageUpdate(t, s, updates, fates) == messageUpdateFrom(t, s, updates, fates, 1)

\* del: 'messages.delete', whose body is commented out
messageDel(t, s, item) == Handled(t, <<>>, FALSE)

\* mutant: the receipt is pushed whether or not the user has one
ReceiptsAfterPush(userReceipt, receipt) == Append(userReceipt, receipt)

\* the userReceipt array after `receipt`
ReceiptsAfter(userReceipt, receipt) ==
  IF \E i \in DOMAIN userReceipt : userReceipt[i].userJid = receipt.userJid
  THEN Append(SelectSeq(userReceipt, LAMBDA m : m.userJid # receipt.userJid), receipt)
  ELSE Append(userReceipt, receipt)

\* the stored array of a JSON column, `message.<column> || []`
Stored(row, column) == IF Has(row, column) THEN row[column] ELSE <<>>

\* the transaction of `updateReceipt` for one { key, receipt }
updateReceiptTx(t, s, key, receipt) ==
  LET where == MessageWhere(s, key)
      message == ByWhere(t, where)
  IN  IF message = {} THEN Fulfilled(t)
      ELSE LET userReceipt == ReceiptsAfter(Stored(CHOOSE r \in message : TRUE, "userReceipt"),
                                            receipt)
           IN  PrismaUpdate(t, where,
                 AsUpdate(validateMessageData(transformPrisma([userReceipt |-> userReceipt]))))

\* updateReceipt: 'message-receipt.update'
RECURSIVE updateReceiptFrom(_, _, _, _, _)
updateReceiptFrom(t, s, updates, fates, k) ==
  IF k > Len(updates) THEN Handled(t, <<>>, FALSE)
  ELSE LET r == IF Retried(fates[k]).ok
                THEN updateReceiptTx(t, s, updates[k].key, updates[k].receipt)
                ELSE Rejected(t)
           rest == updateReceiptFrom(r.table, s, updates, fates, k + 1)
       IN  [rest EXCEPT !.logged =
              (IF r.ok THEN <<>>
               ELSE <<"An error occured during message receipt update">>) \o @]

updateReceipt(t, s, updates, fates) == updateReceiptFrom(t, s, updates, fates, 1)

\* mutant: the new reaction is appended and nothing is removed
ReactionsAfterAppend(existingReactions, reaction) == Append(existingReactions, reaction)

\* mutant: the author's reaction is replaced also when the text is empty
ReactionsAfterKeepEmpty(existingReactions, reaction) ==
  Append(SelectSeq(existingReactions,
                   LAMBDA r : Has(r, "key") /\ getKeyAuthor(r.key) # getKeyAuthor(reaction.key)),
         reaction)

\* mutant: every stored reaction is replaced by the new one
ReactionsAfterReplaceAll(existingReactions, reaction) ==
  IF Has(reaction, "text") /\ reaction.text # "" THEN <<reaction>> ELSE <<>>

\* the reactions array after `reaction`
ReactionsAfter(existingReactions, reaction) ==
  LET authorID == getKeyAuthor(reaction.key)
      filteredReactions ==
        SelectSeq(existingReactions,
                  LAMBDA r : Has(r, "key") /\ getKeyAuthor(r.key) # authorID)
  IN  IF Has(reaction, "text") /\ reaction.text # ""
      THEN Append(filteredReactions, reaction)
      ELSE filteredReactions

\* mutant: a reaction to a message that is not stored is an error
updateReactionTxRejectsMissing(t, s, key, reaction) ==
  LET where == MessageWhere(s, key)
      message == ByWhere(t, where)
  IN  IF message = {} THEN Rejected(t)
      ELSE LET updatedReactions == ReactionsAfter(Stored(CHOOSE r \in message : TRUE, "reactions"),
                                                  reaction)
           IN  PrismaUpdate(t, where,
                 AsUpdate(validateMessageData(transformPrisma([reactions |-> updatedReactions]))))

\* the transaction of `updateReaction` for one { key, reaction }
updateReactionTx(t, s, key, reaction) ==
  LET where == MessageWhere(s, key)
      message == ByWhere(t, where)
  IN  IF message = {} THEN Fulfilled(t)
      ELSE LET updatedReactions == ReactionsAfter(Stored(CHOOSE r \in message : TRUE, "reactions"),
                                                  reaction)
           IN  PrismaUpdate(t, where,
                 AsUpdate(validateMessageData(transformPrisma([reactions |-> updatedReactions]))))

\* updateReaction: 'messages.reaction'
RECURSIVE updateReactionFrom(_, _, _, _, _)
updateReactionFrom(t, s, reactions, fates, k) ==
  IF k > Len(reactions) THEN Handled(t, <<>>, FALSE)
  ELSE LET r == IF Retried(fates[k]).ok
                THEN updateReactionTx(t, s, reactions[k].key, reactions[k].reaction)
                ELSE Rejected(t)
           rest == updateReactionFrom(r.table, s, reactions, fates, k + 1)
       IN  [rest EXCEPT !.logged =
              (IF r.ok THEN <<>>
               ELSE <<"An error occured during message reaction update">>) \o @]

updateReaction(t, s, reactions, fates) == updateReactionFrom(t, s, reactions, fates, 1)

\* ---- the message events explored
Key(jid, id) == [remoteJid |-> jid, id |-> id, fromMe |-> FALSE]
Msg(jid, id) == [key |-> Key(jid, id)]
Msg1(jid) == [key |-> Key(jid, "m1"), messageTimestamp |-> 5]
AllOk(n) == [i \in 1..n |-> <<Ok>>]

\* the messages of a history-set or upsert event of session "A": the same
\* message addressed with and without its device, with a field outside the
\* schema, with a null field, and with a second message of the same chat that
\* carries no timestamp; session "B" receives the first message by history-set
MessageLists ==
  { <<>>, <<Msg1(UserJid)>>,
    <<Spread(Msg1(DeviceJid), [status |-> 1, statusMentions |-> "q"])>>,
    <<Spread(Msg1(UserJid), [pushName |-> NullValue])>>,
    <<Msg1(UserJid), Msg(UserJid, "m2")>> }

MessageSetLists(s) == IF s = "A" THEN MessageLists ELSE {<<Msg1(UserJid)>>}

MessageUpsertLists(s) == IF s = "A" THEN MessageLists ELSE {}

\* the fates of the writes of an event: all succeed, or the first one times out
FatesOf(n) ==
  {AllOk(n)} \cup (IF n = 0 THEN {} ELSE {[i \in 1..n |-> IF i = 1 THEN <<Timeout>> ELSE <<Ok>>]})

\* an upsert of the one message meets every fate
UpsertFatesOf(msgs) == IF msgs = <<Msg1(UserJid)>> THEN {<<f>> : f \in Fates} ELSE FatesOf(Len(msgs))

Failed(fates) == {i \in DOMAIN fates : ~Retried(fates[i]).ok}

MessageUpdateLists(s) ==
  IF s = "A"
  THEN { <<[key |-> Key(UserJid, "m1"), update |-> [status |-> 2]]>>,
         <<[key |-> Key(DeviceJid, "m1"), update |-> [status |-> 1, statusMentions |-> "q"]]>>,
         <<[key |-> Key(UserJid, "m2"), update |-> [pushName |-> NullValue]],
           [key |-> Key(UserJid, "m1"), update |-> [status |-> 2]]>> }
  ELSE {}

MessageSet ==
  \E s \in Sessions : \E msgs \in MessageSetLists(s) :
    LET n == Len(Batches(msgs, getBatchConfig(Len(msgs)).BATCH_SIZE))
    IN  \E order \in Orders(n), fails \in SUBSET (1..n) :
          LET res == messageSet(messages, s, msgs, order, fails)
          IN  /\ messages' = res.table
              /\ Observe(Event("messaging-history.set", s, msgs, FALSE, order, fails), res)
              /\ UNCHANGED <<chats, emitted, listenVars, retryVars, authVars, moreVars>>

MessageUpsert ==
  \E s \in Sessions, type \in {"append", "notify"} : \E msgs \in MessageUpsertLists(s) :
    \E fates \in UpsertFatesOf(msgs), lands \in SUBSET (1..(Len(msgs) - 1)) :
      LET res == messageUpsert(Stores(messages, chats, emitted), s, msgs, type, fates, lands)
      IN  /\ messages' = res.table
          /\ chats' = res.chats
          /\ emitted' = res.emitted
          /\ Observe(Event("messages.upsert", s, [messages |-> msgs, type |-> type],
                           FALSE, fates, Failed(fates)), res)
          /\ UNCHANGED <<listenVars, retryVars, authVars, moreVars>>

MessageUpdate ==
  \E s \in Sessions : \E updates \in MessageUpdateLists(s) :
    \E fates \in FatesOf(Len(updates)) :
      LET res == messageUpdate(messages, s, updates, fates)
      IN  /\ messages' = res.table
          /\ Observe(Event("messages.update", s, updates, FALSE, fates, Failed(fates)), res)
          /\ UNCHANGED <<chats, emitted, listenVars, retryVars, authVars, moreVars>>

MessageDel ==
  \E s \in {"A"} :
    LET item == [keys |-> <<Key(UserJid, "m1")>>]
        res == messageDel(messages, s, item)
    IN  /\ messages' = res.table
        /\ Observe(Event("messages.delete", s, item, FALSE, <<>>, {}), res)
        /\ UNCHANGED <<chats, emitted, listenVars, retryVars, authVars, moreVars>>

\* the chat handler's upsert, started by an emitted 'chats.upsert', writes
EmittedChatUpsert ==
  \E e \in emitted, fails \in FailChoices(1) :
    LET res == chatUpsert(chats, e.sessionId, e.chats, <<1>>, fails)
    IN  /\ chats' = res.table
        /\ emitted' = emitted \ {e}
        /\ Observe(Event("chats.upsert", e.sessionId, e.chats, FALSE, <<1>>, fails), res)
        /\ UNCHANGED <<messages, listenVars, retryVars, authVars, moreVars>>

\* ---- the reaction and receipt events explored
AuthorKeys ==
  { [remoteJid |-> UserJid, id |-> "r1", fromMe |-> TRUE],
    [remoteJid |-> GroupJid, id |-> "r2", fromMe |-> FALSE, participant |-> ParticipantJid],
    [remoteJid |-> UserJid, id |-> "r3", fromMe |-> FALSE] }

Reaction(k, text) == [key |-> k, text |-> text]
Reacts(key, r) == [key |-> key, reaction |-> r]
Receipt(u, ts) == [userJid |-> u, readTimestamp |-> ts]

MyKey(id) == [remoteJid |-> UserJid, id |-> id, fromMe |-> TRUE]

\* session "A": every author reacts to message m1 or withdraws the reaction, I
\* react again with another text and through the device-qualified address,
\* and to a message that is not stored; session "B": I react to its m1
ReactionLists(s) ==
  IF s = "A"
  THEN {<<Reacts(Key(UserJid, "m1"), Reaction(k, text))>> :
          k \in AuthorKeys, text \in {"+", ""}}
       \cup { <<Reacts(Key(DeviceJid, "m1"), Reaction(MyKey("r4"), "-"))>>,
              <<Reacts(Key(UserJid, "m2"), Reaction(MyKey("r1"), "+"))>> }
  ELSE {<<Reacts(Key(UserJid, "m1"), Reaction(MyKey("r1"), "+"))>>}

ReceiptLists(s) ==
  IF s = "A"
  THEN { <<[key |-> Key(UserJid, "m1"), receipt |-> Receipt("u1", 1)]>>,
         <<[key |-> Key(UserJid, "m1"), receipt |-> Receipt("u1", 2)]>>,
         <<[key |-> Key(UserJid, "m1"), receipt |-> Receipt("u2", 1)]>> }
  ELSE {}

\* a message arrives with messages.upsert of type 'append'
MessageArrives ==
  \E s \in Sessions :
    LET msgs == <<Msg1(UserJid)>>
        res == messageUpsert(Stores(messages, chats, emitted), s, msgs, "append",
                             AllOk(1), {})
    IN  /\ ByWhere(messages, MessageWhere(s, msgs[1].key)) = {}
        /\ messages' = res.table
        /\ Observe(Event("messages.upsert", s, [messages |-> msgs, type |-> "append"],
                         FALSE, AllOk(1), {}), res)
        /\ UNCHANGED <<chats, emitted, listenVars, retryVars, authVars, moreVars>>

MessageReaction ==
  \E s \in Sessions : \E reactions \in ReactionLists(s) :
    \E fates \in FatesOf(Len(reactions)) :
      LET res == updateReaction(messages, s, reactions, fates)
      IN  /\ messages' = res.table
          /\ Observe(Event("messages.reaction", s, reactions, FALSE, fates, Failed(fates)),
                     res)
          /\ UNCHANGED <<chats, emitted, listenVars, retryVars, authVars, moreVars>>

MessageReceipt ==
  \E s \in Sessions : \E updates \in ReceiptLists(s) :
    \E fates \in {AllOk(Len(updates))} :
      LET res == updateReceipt(messages, s, updates, fates)
      IN  /\ messages' = res.table
          /\ Observe(Event("message-receipt.update", s, updates, FALSE, fates,
                           Failed(fates)), res)
          /\ UNCHANGED <<chats, emitted, listenVars, retryVars, authVars, moreVars>>

\* ---- a session's first history sync
MaxHistory == 201   \* the largest history explored, five batches of messages

\* a history of n messages of one chat, ids "1" .. "n"
History(n) == [i \in 1..n |-> Msg(UserJid, ToString(i))]

\* session "A": two batches, three batches, and five batches in two
\* Promise.all groups; session "B": two batches
HistorySizes(s) == IF s = "A" THEN {100, 150, MaxHistory} ELSE {100}

Ascending(n) == [i \in 1..n |-> i]
Descending(n) == [i \in 1..n |-> n + 1 - i]

\* the batches of a group commit in either order
CommitOrders(s, n) == IF s = "A" THEN {Ascending(n), Descending(n)} ELSE {Ascending(n)}

\* set, for a session that holds no message yet; no batch or one batch fails
HistorySync ==
  \E s \in Sessions : \E size \in HistorySizes(s) :
    LET msgs == History(size)
        n == Len(Batches(msgs, getBatchConfig(size).BATCH_SIZE))
    IN  \E order \in CommitOrders(s, n), fails \in {{}} \cup {{b} : b \in 1..n} :
          /\ ByWhere(messages, [sessionId |-> s]) = {}
          /\ LET res == messageSet(messages, s, msgs, order, fails)
             IN  /\ messages' = res.table
                 /\ Observe(Event("messaging-history.set", s, msgs, FALSE, order, fails),
                            res)
          /\ UNCHANGED <<chats, emitted, listenVars, retryVars, authVars, moreVars>>

\* an incremental message of the session arrives after its history
HistoryAppend ==
  \E s \in Sessions :
    LET msgs == <<Msg(UserJid, "0")>>
        res == messageUpsert(Stores(messages, chats, emitted), s, msgs, "append",
                             AllOk(1), {})
    IN  /\ ByWhere(messages, [sessionId |-> s]) # {}
        /\ messages' = res.table
        /\ Observe(Event("messages.upsert", s, [messages |-> msgs, type |-> "append"],
                         FALSE, AllOk(1), {}), res)
        /\ UNCHANGED <<chats, emitted, listenVars, retryVars, authVars, moreVars>>

(***************************************************************************)
(* Handler calls in flight at once.  The emitter does not await a handler, *)
(* so a second event is handled while the first one waits for the          *)
(* database.  On MySQL prisma.<model>.upsert is a SELECT followed by an    *)
(* INSERT or an UPDATE: the two statements of one call are two steps, and  *)
(* an INSERT that meets a row created meanwhile fails with P2002.          *)
(***************************************************************************)
TaskIds == {1, 2}

RaceSession == "A"
RaceChat == "x"
RaceWhere == [sessionId |-> RaceSession, id |-> RaceChat]

\* the two versions of the chat handler's upsert
ChatHandlers == {"chat.ts", "part_000"}

NoData == [id |-> "undefined"]

IdleTask == [pc |-> "idle", handler |-> "none", data |-> NoData,
             found |-> FALSE, seen |-> <<>>, result |-> "none"]

TasksIdle == tasks = [i \in TaskIds |-> IdleTask]
ContactsIdle == contacts = {}

\* table Session is empty and useSession has been called for no session
NoCall == [op |-> "none"]
SessionIdle == sessionRows = {} /\ lastKeys = NoCall

\* the chats of the concurrent chats.upsert events: the same conversation
RaceChats == {CU(RaceChat, n) : n \in {1, 2}}

\* `update: data` (chat.ts) and `update: { ...data, id: undefined }` (part_000)
UpsertUpdateOf(h, data) ==
  IF h = "chat.ts" THEN AsUpdate(data)
  ELSE AsUpdate([f \in DOMAIN data \ {"id"} |-> data[f]])

\* what a P2002 of the upsert leads to: chat.ts has no handler for it and the
\* call fails, part_000 catches it and goes on to prisma.chat.update
OnUniqueViolation(h) == IF h = "chat.ts" THEN "done" ELSE "P2002-caught"

\* a chats.upsert event with one chat reaches the handler
UpsertCalled(i) ==
  \E h \in ChatHandlers, c \in RaceChats :
    /\ tasks[i].pc = "idle"
    /\ \A j \in TaskIds : tasks[j].pc # "idle" => tasks[j].handler = h
    /\ tasks' = [tasks EXCEPT ![i] = [pc |-> "called", handler |-> h,
                                      data |-> transformPrisma(c),
                                      found |-> FALSE, seen |-> <<>>,
                                      result |-> "none"]]
    /\ UNCHANGED <<contacts, storeVars, listenVars, retryVars, authVars>>

\* the SELECT of the upsert
UpsertSelects(i) ==
  /\ tasks[i].pc = "called"
  /\ tasks' = [tasks EXCEPT ![i].pc = "selected",
                            ![i].found = (ByWhere(chats, RaceWhere) # {})]
  /\ UNCHANGED <<contacts, storeVars, listenVars, retryVars, authVars>>

\* the UPDATE or INSERT of the upsert, chosen by what the SELECT found
UpsertWrites(i) ==
  LET t == tasks[i]
      exists == ByWhere(chats, RaceWhere) # {}
  IN  /\ t.pc = "selected"
      /\ IF t.found \/ ~exists
         THEN /\ chats' = PrismaUpsert(chats, RaceWhere,
                                       Spread(t.data, [sessionId |-> RaceSession]),
                                       UpsertUpdateOf(t.handler, t.data)).table
              /\ tasks' = [tasks EXCEPT ![i].pc = "done", ![i].result = "fulfilled"]
         ELSE /\ chats' = chats
              /\ tasks' = [tasks EXCEPT ![i].pc = OnUniqueViolation(t.handler),
                                        ![i].result = "P2002"]
      /\ UNCHANGED <<messages, emitted, lastEv, pre, again, logged, rejected,
                     contacts, listenVars, retryVars, authVars>>

\* part_000: after P2002, prisma.chat.update; after its P2025, prisma.chat.create
UpsertFallsBack(i) ==
  LET t == tasks[i]
      upd == PrismaUpdate(chats, RaceWhere, UpsertUpdateOf(t.handler, t.data))
  IN  /\ t.pc = "P2002-caught"
      /\ chats' = IF upd.ok THEN upd.table
                  ELSE chats \cup {Spread(t.data, [sessionId |-> RaceSession])}
      /\ tasks' = [tasks EXCEPT ![i].pc = "done", ![i].result = "fulfilled"]
      /\ UNCHANGED <<messages, emitted, lastEv, pre, again, logged, rejected,
                     contacts, listenVars, retryVars, authVars>>

\* both calls have settled; the next events arrive (the row stays, or the
\* conversation is deleted in between)
RaceSettles ==
  /\ \A i \in TaskIds : tasks[i].pc = "done"
  /\ tasks' = [i \in TaskIds |-> IdleTask]
  /\ chats' \in {chats, {}}
  /\ UNCHANGED <<messages, emitted, lastEv, pre, again, logged, rejected,
                 contacts, listenVars, retryVars, authVars>>

(***************************************************************************)
(* Two read-modify-write transactions at once.  The transaction of         *)
(* updateReaction and updateReceipt reads the array with a plain SELECT    *)
(* (findFirst, no lock) and writes the whole array back with UPDATE.       *)
(* Under read-committed the SELECT of one transaction does not wait for    *)
(* the other; the UPDATE takes the row lock until commit, so the UPDATE    *)
(* and the commit of one transaction are one step.                         *)
(***************************************************************************)
RaceKey == Key(UserJid, "m1")

\* the column a handler rewrites
ColumnOf(h) == IF h = "updateReaction" THEN "reactions" ELSE "userReceipt"

\* the entries of the concurrent events: a reaction of mine and one of a group
\* participant, a receipt of each of two users
RaceEntries(h) ==
  IF h = "updateReaction"
  THEN {Reaction(k, "+") : k \in {k \in AuthorKeys : k.id \in {"r1", "r2"}}}
  ELSE {Receipt(u, 1) : u \in {"u1", "u2"}}

\* the array the transaction writes, computed from the array it read
ArrayAfter(h, seen, entry) ==
  IF h = "updateReaction" THEN ReactionsAfter(seen, entry)
  ELSE ReceiptsAfter(seen, entry)

\* a messages.reaction or message-receipt.update event with one entry for
\* message m1 reaches the handler
TxCalled(i) ==
  \E h \in {"updateReaction", "updateReceipt"} : \E entry \in RaceEntries(h) :
    /\ tasks[i].pc = "idle"
    /\ tasks' = [tasks EXCEPT ![i] = [pc |-> "called", handler |-> h,
                                      data |-> entry, found |-> FALSE,
                                      seen |-> <<>>, result |-> "none"]]
    /\ UNCHANGED <<contacts, storeVars, listenVars, retryVars, authVars>>

\* tx.message.findFirst: no row ends the transaction, else the array is read
TxReads(i) ==
  LET t == tasks[i]
      message == ByWhere(messages, MessageWhere(RaceSession, RaceKey))
  IN  /\ t.pc = "called"
      /\ tasks' = IF message = {}
                  THEN [tasks EXCEPT ![i].pc = "done", ![i].result = "fulfilled"]
                  ELSE [tasks EXCEPT ![i].pc = "read", ![i].found = TRUE,
                          ![i].seen = Stored(CHOOSE r \in message : TRUE,
                                             ColumnOf(t.handler))]
      /\ UNCHANGED <<contacts, storeVars, listenVars, retryVars, authVars>>

\* tx.message.update and the commit
TxWrites(i) ==
  LET t == tasks[i]
      array == ArrayAfter(t.handler, t.seen, t.data)
      column == ColumnOf(t.handler)
      res == PrismaUpdate(messages, MessageWhere(RaceSession, RaceKey),
               AsUpdate(validateMessageData(transformPrisma(
                 [c \in {column} |-> array]))))
  IN  /\ t.pc = "read"
      /\ messages' = res.table
      /\ tasks' = [tasks EXCEPT ![i].pc = "done",
                     ![i].result = IF res.ok THEN "fulfilled" ELSE "P2025"]
      /\ UNCHANGED <<chats, emitted, lastEv, pre, again, logged, rejected,
                     contacts, listenVars, retryVars, authVars>>

\* both transactions have ended; the next events arrive
TxSettle ==
  /\ \A i \in TaskIds : tasks[i].pc = "done"
  /\ tasks' = [i \in TaskIds |-> IdleTask]
  /\ UNCHANGED <<contacts, storeVars, listenVars, retryVars, authVars>>

(***************************************************************************)
(* resolveChatId (part_000) and resolveContactId (contact.ts): the address *)
(* a record is stored under.  `getJid` is the lookup the handler was       *)
(* constructed with; it is named here by what it answers.                  *)
(***************************************************************************)
Addresses == {UserJid, DeviceJid, LidJid, LidDeviceJid, OtherLid, ThirdJid}

\* id?.endsWith('@lid')
EndsWithLid(id) == id \in {LidJid, LidDeviceJid, OtherLid}

\* "none": no getJid was given; "unknown": it knows no address; "known": it
\* maps the alias to the address of the user; "device": to the address of one
\* of the user's devices; "chain": to another alias, which it maps further
Lookups == {"none", "unknown", "known", "device", "chain"}

\* typeof getJid === 'function' ? getJid(id || '') : undefined
JidByLid(lookup, id) ==
  IF lookup = "known" /\ id = LidJid THEN UserJid
  ELSE IF lookup = "device" /\ id = LidJid THEN DeviceJid
  ELSE IF lookup = "chain" /\ id = LidJid THEN OtherLid
  ELSE IF lookup = "chain" /\ id = OtherLid THEN ThirdJid
  ELSE "undefined"

\* a || b || c of the record's alternate-address fields, in the given order
FirstOf(record, fields) ==
  LET present == SelectSeq(fields, LAMBDA f : Has(record, f))
  IN  IF present = <<>> THEN "undefined" ELSE record[present[1]]

\* no alternate address: the call resolveChatId(id)
NoHint == [id |-> "undefined"]

\* mutant: the alternate address is returned as it came
ResolveCandidateRaw(lookup, id, record, fields) ==
  LET candidate == FirstOf(record, fields)
      jidByLid == JidByLid(lookup, id)
  IN  IF EndsWithLid(id) /\ candidate # "undefined"
      THEN candidate
      ELSE jidNormalizedUser(IF jidByLid # "undefined" THEN jidByLid ELSE id)

\* mutant: the lookup is consulted before the record's alternate address
ResolveLookupFirst(lookup, id, record, fields) ==
  LET candidate == FirstOf(record, fields)
      jidByLid == JidByLid(lookup, id)
  IN  IF jidByLid # "undefined" THEN jidNormalizedUser(jidByLid)
      ELSE IF EndsWithLid(id) /\ candidate # "undefined"
      THEN jidNormalizedUser(candidate)
      ELSE jidNormalizedUser(id)

\* the body shared by resolveChatId and resolveContactId
Resolve(lookup, id, record, fields) ==
  LET candidate == FirstOf(record, fields)
      jidByLid == JidByLid(lookup, id)
  IN  IF EndsWithLid(id) /\ candidate # "undefined"
      THEN jidNormalizedUser(candidate)
      ELSE jidNormalizedUser(IF jidByLid # "undefined" THEN jidByLid ELSE id)

\* mutant: the address is only normalized
resolveChatIdNormalizeOnly(lookup, id, chatOrUpdate) == jidNormalizedUser(id)

resolveChatId(lookup, id, chatOrUpdate) ==
  Resolve(lookup, id, chatOrUpdate, <<"pnJid", "senderPn", "jid">>)

resolveContactId(lookup, id, contact) ==
  Resolve(lookup, id, contact, <<"senderPn", "pnJid", "jid">>)

\* ---- the resolver applied to an address, and again to its result
Resolvers == {"resolveChatId", "resolveContactId"}

\* the records an address arrives in: without an alternate address, with
\* pnJid, with senderPn and pnJid, with a jid that is itself an alias
Hints ==
  { NoHint, [pnJid |-> UserJid], [senderPn |-> DeviceJid, pnJid |-> ThirdJid],
    [jid |-> OtherLid] }

ResolveWith(resolver, lookup, id, record) ==
  IF resolver = "resolveChatId" THEN resolveChatId(lookup, id, record)
  ELSE resolveContactId(lookup, id, record)

ResolveInputs ==
  [resolver : Resolvers, lookup : Lookups, id : Addresses, hint : Hints,
   once : {"none"}, twice : {"none"}]

ResolveInit ==
  /\ ListenIdle /\ RetryIdle /\ StoreIdle /\ ContactsIdle /\ SessionIdle
  /\ tasks \in ResolveInputs

\* resolve(a)
ResolveOnce ==
  /\ tasks.once = "none"
  /\ tasks' = [tasks EXCEPT !.once = ResolveWith(tasks.resolver, tasks.lookup,
                                                 tasks.id, tasks.hint)]
  /\ UNCHANGED <<contacts, storeVars, listenVars, retryVars, authVars>>

\* resolve(resolve(a))
ResolveTwice ==
  /\ tasks.once # "none"
  /\ tasks.twice = "none"
  /\ tasks' = [tasks EXCEPT !.twice = ResolveWith(tasks.resolver, tasks.lookup,
                                                  tasks.once, NoHint)]
  /\ UNCHANGED <<contacts, storeVars, listenVars, retryVars, authVars>>

(***************************************************************************)
(* chatHandler with address resolution (part_000, lines 194-375): every    *)
(* record is stored under resolveChatId(record.id, record).                *)
(***************************************************************************)
\* chats.map((c) => ({ ...transformPrisma(c), id: resolveChatId(c.id, c) }))
normalizedChats(lookup, cs) ==
  [i \in DOMAIN cs |->
     Spread(transformPrisma(cs[i]),
            [id |-> resolveChatId(lookup, IdOf(cs[i]), cs[i])])]

\* set: the transaction of chat.ts on the normalized chats
resolvedChatSet(lookup, t, s, cs, isLatest, fails) ==
  chatSet(t, s, normalizedChats(lookup, cs), isLatest, fails)

\* Array.from(dedupedById.values()): one entry per resolved id, at the place
\* of its first occurrence, holding the data of its last occurrence
dedupedById(datas) ==
  LET firsts == SelectSeq([i \in DOMAIN datas |-> i],
                          LAMBDA i : \A j \in 1..(i - 1) : datas[j].id # datas[i].id)
      last(i) == CHOOSE j \in DOMAIN datas :
                   /\ datas[j].id = datas[i].id
                   /\ \A k \in DOMAIN datas : datas[k].id = datas[i].id => k <= j
  IN  [n \in DOMAIN firsts |-> datas[last(firsts[n])]]

WithoutId(data) == [f \in DOMAIN data \ {"id"} |-> data[f]]

\* the upserts of Promise.all, each with its fallback; the ids differ, so the
\* order in which they reach the database leaves the same table
RECURSIVE resolvedChatUpsertEach(_, _, _, _, _)
resolvedChatUpsertEach(t, s, datas, fails, k) ==
  IF k > Len(datas) THEN [table |-> t, rejected |-> {}]
  ELSE LET data == datas[k]
           r == IF k \in fails \/ ~Valid(data) THEN Rejected(t)
                ELSE PrismaUpsert(t, [sessionId |-> s, id |-> data.id],
                                  Spread(data, [sessionId |-> s]),
                                  AsUpdate(WithoutId(data)))
           rest == resolvedChatUpsertEach(r.table, s, datas, fails, k + 1)
       IN  [table |-> rest.table,
            rejected |-> (IF r.ok THEN {} ELSE {k}) \cup rest.rejected]

\* upsert: 'chats.upsert'
resolvedChatUpsert(lookup, t, s, cs, fails) ==
  LET r == resolvedChatUpsertEach(t, s, dedupedById(normalizedChats(lookup, cs)),
                                  fails, 1)
  IN  Handled(r.table,
              IF r.rejected # {} THEN <<"An error occured during chats upsert">>
              ELSE <<>>,
              FALSE)

\* update: 'chats.update', one record after the other
RECURSIVE resolvedChatUpdateFrom(_, _, _, _, _, _)
resolvedChatUpdateFrom(lookup, t, s, updates, fails, k) ==
  IF k > Len(updates) THEN Handled(t, <<>>, FALSE)
  ELSE LET update == updates[k]
           chatId == resolveChatId(lookup, IdOf(update), update)
           data == transformPrisma(update)
           upd == IF Has(data, "unreadCount")
                  THEN Spread(AsUpdate(WithoutId(data)),
                              [unreadCount |-> unreadCountUpdate(data)])
                  ELSE AsUpdate(WithoutId(data))
           r == IF ~Has(update, "id") THEN Fulfilled(t)
                ELSE IF k \in fails \/ ~Valid(data) THEN Rejected(t)
                ELSE PrismaUpsert(t, [sessionId |-> s, id |-> chatId],
                                  Spread(data, [id |-> chatId, sessionId |-> s]), upd)
           rest == resolvedChatUpdateFrom(lookup, r.table, s, updates, fails, k + 1)
       IN  Handled(rest.table,
                   (IF r.ok THEN <<>> ELSE <<"An error occured during chat update">>)
                     \o rest.logged,
                   FALSE)

resolvedChatUpdate(lookup, t, s, updates, fails) ==
  resolvedChatUpdateFrom(lookup, t, s, updates, fails, 1)

\* ---- the chat events with aliases: an alias alone, with its alternate
\* address, device-qualified; the user's address device-qualified and plain;
\* two records that resolve to one address
AliasChatLists ==
  { <<C(LidJid)>>, <<[id |-> LidJid, pnJid |-> UserJid]>>, <<C(LidDeviceJid)>>,
    <<CU(DeviceJid, 1)>>,
    <<[id |-> LidJid, pnJid |-> UserJid], CU(UserJid, 0)>> }

\* the lookups the handler is constructed with in these events
AliasLookups == {"none", "known", "chain"}

\* no storage error, or one that hits the first storage call of the event
FirstFails == {{}, {1}}

AliasChatSet ==
  \E lookup \in AliasLookups, isLatest \in BOOLEAN, fails \in TxFailChoices :
    \E cs \in AliasChatLists :
      LET res == resolvedChatSet(lookup, chats, RaceSession, cs, isLatest, fails)
      IN  /\ chats' = res.table
          /\ Observe(Event("messaging-history.set", RaceSession,
                           [chats |-> cs, getJid |-> lookup], isLatest, <<>>, fails),
                     res)
          /\ UNCHANGED <<messages, emitted, listenVars, retryVars, authVars, moreVars>>

AliasChatUpsert ==
  \E lookup \in AliasLookups : \E cs \in AliasChatLists :
    \E fails \in FirstFails :
      LET res == resolvedChatUpsert(lookup, chats, RaceSession, cs, fails)
      IN  /\ chats' = res.table
          /\ Observe(Event("chats.upsert", RaceSession,
                           [chats |-> cs, getJid |-> lookup], FALSE, <<>>, fails),
                     res)
          /\ UNCHANGED <<messages, emitted, listenVars, retryVars, authVars, moreVars>>

AliasChatUpdate ==
  \E lookup \in AliasLookups : \E updates \in AliasChatLists :
    \E fails \in FirstFails :
      LET res == resolvedChatUpdate(lookup, chats, RaceSession, updates, fails)
      IN  /\ InRange(res.table)
          /\ chats' = res.table
          /\ Observe(Event("chats.update", RaceSession,
                           [chats |-> updates, getJid |-> lookup], FALSE, <<>>, fails),
                     res)
          /\ UNCHANGED <<messages, emitted, listenVars, retryVars, authVars, moreVars>>

(***************************************************************************)
(* contactHandler (src/handlers/contact.ts)                                *)
(***************************************************************************)
ContactFields == {"id", "name", "notify", "verifiedName", "imgUrl", "status"}

\* mutant: only the id is kept
sanitizeContactDataIdOnly(raw) == [f \in DOMAIN raw \cap {"id"} |-> raw[f]]

\* sanitizeContactData(raw): the fields of the Contact model
sanitizeContactData(raw) == [f \in DOMAIN raw \cap ContactFields |-> raw[f]]

\* contacts.map((c) => ({ ...sanitizeContactData(transformPrisma(c)), id }))
normalizedContacts(lookup, cs) ==
  [i \in DOMAIN cs |->
     Spread(sanitizeContactData(transformPrisma(cs[i])),
            [id |-> resolveContactId(lookup, IdOf(cs[i]), cs[i])])]

\* the upserts of `set` and `upsert`, issued together; result: the table and
\* the indices of the promises that fulfilled
RECURSIVE contactUpsertEach(_, _, _, _, _)
contactUpsertEach(t, s, datas, fails, k) ==
  IF k > Len(datas) THEN [table |-> t, fulfilled |-> {}]
  ELSE LET data == datas[k]
           r == IF k \in fails \/ ~Valid(data) THEN Rejected(t)
                ELSE PrismaUpsert(t, [sessionId |-> s, id |-> data.id],
                                  Spread(data, [sessionId |-> s]), AsUpdate(data))
           rest == contactUpsertEach(r.table, s, datas, fails, k + 1)
       IN  [table |-> rest.table,
            fulfilled |-> (IF r.ok THEN {k} ELSE {}) \cup rest.fulfilled]

\* the ids of the session's contacts that the event does not list
deletedOldContactIds(t, s, datas) ==
  {r.id : r \in {q \in t : q.sessionId = s
                          /\ \A i \in DOMAIN datas : datas[i].id # q.id}}

\* set: 'messaging-history.set'; storage call 0 is the findMany, call k the
\* upsert of contact k; the deleteMany and the upserts touch different rows
contactSet(lookup, t, s, cs, fails) ==
  LET datas == normalizedContacts(lookup, cs)
      stale == deletedOldContactIds(t, s, datas)
      r == contactUpsertEach(t, s, datas, fails, 1)
  IN  IF 0 \in fails
      THEN Handled(t, <<"An error occured during contacts set">>, FALSE)
      ELSE Handled({q \in r.table : ~(q.sessionId = s /\ q.id \in stale)},
                   <<>>, FALSE)

\* upsert: 'contacts.upsert'
contactUpsert(lookup, t, s, cs, fails) ==
  LET r == contactUpsertEach(t, s, normalizedContacts(lookup, cs), fails, 1)
  IN  Handled(r.table,
              IF r.fulfilled = {} THEN <<"An error occured during contacts upsert">>
              ELSE <<>>,
              FALSE)

\* the upsert of `update`: the update branch writes the fields of the patch,
\* its id as it arrived included; P2002 when that id is another row's
contactUpdateUpsert(t, s, contactId, transformedData) ==
  IF /\ ByKey(t, s, contactId) # {}
     /\ transformedData.id # contactId
     /\ ByKey(t, s, transformedData.id) # {}
  THEN Rejected(t)
  ELSE PrismaUpsert(t, [sessionId |-> s, id |-> contactId],
                    Spread(transformedData, [id |-> contactId, sessionId |-> s]),
                    AsUpdate(transformedData))

\* update: 'contacts.update', one record after the other
RECURSIVE contactUpdateFrom(_, _, _, _, _, _)
contactUpdateFrom(lookup, t, s, updates, fails, k) ==
  IF k > Len(updates) THEN Handled(t, <<>>, FALSE)
  ELSE LET update == updates[k]
           contactId == resolveContactId(lookup, IdOf(update), update)
           transformedData == sanitizeContactData(transformPrisma(update))
           r == IF ~Has(update, "id") THEN Fulfilled(t)
                ELSE IF k \in fails THEN Rejected(t)
                ELSE contactUpdateUpsert(t, s, contactId, transformedData)
           rest == contactUpdateFrom(lookup, r.table, s, updates, fails, k + 1)
       IN  Handled(rest.table,
                   (IF r.ok THEN <<>> ELSE <<"An error occured during contact update">>)
                     \o rest.logged,
                   FALSE)

contactUpdate(lookup, t, s, updates, fails) ==
  contactUpdateFrom(lookup, t, s, updates, fails, 1)

(***************************************************************************)
(* The three handlers of one Store on one emitter: every event of the      *)
(* session, each handled by the handler (or, for the history-set, the      *)
(* three handlers) listening for it.  The Store gives its handlers no      *)
(* getJid.                                                                 *)
(***************************************************************************)
StoreSession == "A"
StoreLookup == "none"

K(id) == [id |-> id, notify |-> "n"]

\* history-sets: a first one, one that lists other records, one whose first
\* chat and first contact carry no id
StoreHistories ==
  { [chats |-> <<C(UserJid)>>, contacts |-> <<K(UserJid)>>,
     messages |-> <<Msg1(UserJid)>>],
    [chats |-> <<C(ThirdJid)>>, contacts |-> <<K(ThirdJid)>>, messages |-> <<>>],
    [chats |-> <<NoId(1), C(UserJid)>>,
     contacts |-> <<[notify |-> "n"], K(UserJid)>>, messages |-> <<>>] }

\* records with no id first, patches for identities not stored yet, an alias
\* with its alternate address
StoreChatUpserts == {<<NoId(1), C(UserJid)>>}
StoreChatUpdates == {<<NoId(1), CU(ThirdJid, 2)>>, <<CU(UserJid, 0)>>}
StoreChatDeletes == {<<UserJid>>}
StoreContactUpserts ==
  { <<[notify |-> "n"], K(ThirdJid)>>,
    <<[id |-> LidJid, senderPn |-> DeviceJid, notify |-> "n"]>> }
StoreContactUpdates ==
  { <<[notify |-> "n"], K(ThirdJid)>>,
    <<[id |-> LidJid, senderPn |-> DeviceJid, notify |-> "n"]>> }

\* updates, receipts and reactions: first for message m2, which is never
\* stored, then for message m1
StoreMessageUpdates ==
  { <<[key |-> Key(UserJid, "m2"), update |-> [status |-> 1]],
      [key |-> Key(UserJid, "m1"), update |-> [status |-> 2]]>> }
StoreReceipts ==
  { <<[key |-> Key(UserJid, "m2"), receipt |-> Receipt("u1", 1)],
      [key |-> Key(UserJid, "m1"), receipt |-> Receipt("u1", 1)]>> }
StoreReactions ==
  { <<Reacts(Key(UserJid, "m2"), Reaction(MyKey("r1"), "+")),
      Reacts(Key(UserJid, "m1"), Reaction(MyKey("r1"), "+"))>> }

Identity(n) == [i \in 1..n |-> i]

StoreHistorySet ==
  \E h \in StoreHistories, isLatest \in BOOLEAN :
    LET c == chatSet(chats, StoreSession, h.chats, isLatest, {})
        k == contactSet(StoreLookup, contacts, StoreSession, h.contacts, {})
        m == messageSet(messages, StoreSession, h.messages, <<1>>, {})
    IN  /\ chats' = c.table
        /\ contacts' = k.table
        /\ messages' = m.table
        /\ Observe(Event("messaging-history.set", StoreSession, h, isLatest, <<>>, {}),
                   Handled(m.table, c.logged \o k.logged \o m.logged, m.rejected))
        /\ UNCHANGED <<emitted, tasks, listenVars, retryVars, authVars>>

StoreChatsUpsert ==
  \E cs \in StoreChatUpserts :
    LET res == chatUpsert(chats, StoreSession, cs, Identity(Len(cs)), {})
    IN  /\ chats' = res.table
        /\ Observe(Event("chats.upsert", StoreSession, cs, FALSE, <<>>, {}), res)
        /\ UNCHANGED <<messages, emitted, listenVars, retryVars, authVars, moreVars>>

StoreChatsUpdate ==
  \E updates \in StoreChatUpdates :
    LET res == chatUpdate(chats, StoreSession, updates, {})
    IN  /\ InRange(res.table)
        /\ chats' = res.table
        /\ Observe(Event("chats.update", StoreSession, updates, FALSE, <<>>, {}), res)
        /\ UNCHANGED <<messages, emitted, listenVars, retryVars, authVars, moreVars>>

StoreChatsDelete ==
  \E ids \in StoreChatDeletes :
    LET res == chatDel(chats, StoreSession, ids, {})
    IN  /\ chats' = res.table
        /\ Observe(Event("chats.delete", StoreSession, ids, FALSE, <<>>, {}), res)
        /\ UNCHANGED <<messages, emitted, listenVars, retryVars, authVars, moreVars>>

StoreContactsUpsert ==
  \E cs \in StoreContactUpserts :
    LET res == contactUpsert(StoreLookup, contacts, StoreSession, cs, {})
    IN  /\ contacts' = res.table
        /\ Observe(Event("contacts.upsert", StoreSession, cs, FALSE, <<>>, {}), res)
        /\ UNCHANGED <<chats, messages, emitted, tasks, listenVars, retryVars, authVars>>

StoreContactsUpdate ==
  \E updates \in StoreContactUpdates :
    LET res == contactUpdate(StoreLookup, contacts, StoreSession, updates, {})
    IN  /\ contacts' = res.table
        /\ Observe(Event("contacts.update", StoreSession, updates, FALSE, <<>>, {}), res)
        /\ UNCHANGED <<chats, messages, emitted, tasks, listenVars, retryVars, authVars>>

StoreMessagesUpdate ==
  \E updates \in StoreMessageUpdates :
    LET res == messageUpdate(messages, StoreSession, updates, AllOk(Len(updates)))
    IN  /\ messages' = res.table
        /\ Observe(Event("messages.update", StoreSession, updates, FALSE, <<>>, {}), res)
        /\ UNCHANGED <<chats, emitted, listenVars, retryVars, authVars, moreVars>>

StoreReceipt ==
  \E updates \in StoreReceipts :
    LET res == updateReceipt(messages, StoreSession, updates, AllOk(Len(updates)))
    IN  /\ messages' = res.table
        /\ Observe(Event("message-receipt.update", StoreSession, updates, FALSE,
                         <<>>, {}), res)
        /\ UNCHANGED <<chats, emitted, listenVars, retryVars, authVars, moreVars>>

StoreReaction ==
  \E reactions \in StoreReactions :
    LET res == updateReaction(messages, StoreSession, reactions, AllOk(Len(reactions)))
    IN  /\ messages' = res.table
        /\ Observe(Event("messages.reaction", StoreSession, reactions, FALSE,
                         <<>>, {}), res)
        /\ UNCHANGED <<chats, emitted, listenVars, retryVars, authVars, moreVars>>

(***************************************************************************)
(* Incremental events of two records whose writes meet storage errors:     *)
(* the six handlers that take their records one after the other.           *)
(***************************************************************************)
IsolationSession == "A"

\* the fates of each record's write: success, or an error that is not retried
RecordFates == {<<Ok>>, <<Timeout>>}
FatesEach(n) == [1..n -> RecordFates]

\* two records per event: of two chats, of one contact, two messages of one
\* chat, an update of each message, two receipts of one user for the first
\* message, a reaction to the second and its withdrawal
IsolationChatUpdates == {<<CU(UserJid, 0), CU(ThirdJid, 0)>>}
IsolationContactUpdates == {<<[id |-> UserJid], K(UserJid)>>}
IsolationMessages ==
  {<<Msg1(UserJid), [key |-> Key(UserJid, "m2"), messageTimestamp |-> 5]>>}
IsolationMessageUpdates ==
  {<<[key |-> Key(UserJid, "m1"), update |-> [status |-> 2]],
     [key |-> Key(UserJid, "m2"), update |-> [status |-> 3]]>>}
IsolationReceipts ==
  {<<[key |-> Key(UserJid, "m1"), receipt |-> Receipt("u1", 1)],
     [key |-> Key(UserJid, "m1"), receipt |-> Receipt("u1", 2)]>>}
IsolationReactions ==
  {<<Reacts(Key(UserJid, "m2"), Reaction(MyKey("r1"), "+")),
     Reacts(Key(UserJid, "m2"), Reaction(MyKey("r2"), ""))>>}

IsolatedChatsUpdate ==
  \E updates \in IsolationChatUpdates : \E fails \in FailChoices(Len(updates)) :
    LET res == chatUpdate(chats, IsolationSession, updates, fails)
    IN  /\ InRange(res.table)
        /\ chats' = res.table
        /\ Observe(Event("chats.update", IsolationSession, updates, FALSE, <<>>, fails), res)
        /\ UNCHANGED <<messages, emitted, listenVars, retryVars, authVars, moreVars>>

IsolatedContactsUpdate ==
  \E updates \in IsolationContactUpdates : \E fails \in FailChoices(Len(updates)) :
    LET res == contactUpdate(StoreLookup, contacts, IsolationSession, updates, fails)
    IN  /\ contacts' = res.table
        /\ Observe(Event("contacts.update", IsolationSession, updates, FALSE, <<>>, fails),
                   res)
        /\ UNCHANGED <<chats, messages, emitted, tasks, listenVars, retryVars, authVars>>

IsolatedMessagesUpsert ==
  \E msgs \in IsolationMessages, type \in {"append", "notify"} :
    \E fates \in FatesEach(Len(msgs)) :
      LET res == messageUpsert(Stores(messages, chats, emitted), IsolationSession, msgs,
                               type, fates, {})
      IN  /\ messages' = res.table
          /\ chats' = res.chats
          /\ emitted' = res.emitted
          /\ Observe(Event("messages.upsert", IsolationSession,
                           [messages |-> msgs, type |-> type], FALSE, fates, Failed(fates)),
                     res)
          /\ UNCHANGED <<listenVars, retryVars, authVars, moreVars>>

IsolatedMessagesUpdate ==
  \E updates \in IsolationMessageUpdates : \E fates \in FatesEach(Len(updates)) :
    LET res == messageUpdate(messages, IsolationSession, updates, fates)
    IN  /\ messages' = res.table
        /\ Observe(Event("messages.update", IsolationSession, updates, FALSE, fates,
                         Failed(fates)), res)
        /\ UNCHANGED <<chats, emitted, listenVars, retryVars, authVars, moreVars>>

IsolatedReceipt ==
  \E updates \in IsolationReceipts : \E fates \in FatesEach(Len(updates)) :
    LET res == updateReceipt(messages, IsolationSession, updates, fates)
    IN  /\ messages' = res.table
        /\ Observe(Event("message-receipt.update", IsolationSession, updates, FALSE, fates,
                         Failed(fates)), res)
        /\ UNCHANGED <<chats, emitted, listenVars, retryVars, authVars, moreVars>>

IsolatedReaction ==
  \E reactions \in IsolationReactions : \E fates \in FatesEach(Len(reactions)) :
    LET res == updateReaction(messages, IsolationSession, reactions, fates)
    IN  /\ messages' = res.table
        /\ Observe(Event("messages.reaction", IsolationSession, reactions, FALSE, fates,
                         Failed(fates)), res)
        /\ UNCHANGED <<chats, emitted, listenVars, retryVars, authVars, moreVars>>

(***************************************************************************)
(* The contact handler alone, with records that carry fields outside the   *)
(* Contact model.                                                          *)
(***************************************************************************)
\* a contact as it arrives, with two fields the model has no column for and
\* the same contact under its alias, with and without its alternate address
ContactLists ==
  { <<K(UserJid)>>,
    <<[id |-> UserJid, name |-> "u", lid |-> LidJid, foo |-> "f"]>>,
    <<[id |-> LidJid, notify |-> "n"]>>,
    <<[id |-> LidJid, notify |-> "n", senderPn |-> DeviceJid]>>,
    <<K(ThirdJid), [id |-> UserJid, notify |-> "n", foo |-> "f"]>> }

ContactSet ==
  \E cs \in ContactLists : \E fails \in FailChoices(Len(cs)) :
    LET res == contactSet(StoreLookup, contacts, StoreSession, cs, fails)
    IN  /\ contacts' = res.table
        /\ Observe(Event("messaging-history.set", StoreSession, [contacts |-> cs],
                         FALSE, <<>>, fails), res)
        /\ UNCHANGED <<chats, messages, emitted, tasks, listenVars, retryVars, authVars>>

ContactUpsert ==
  \E cs \in ContactLists : \E fails \in FailChoices(Len(cs)) :
    LET res == contactUpsert(StoreLookup, contacts, StoreSession, cs, fails)
    IN  /\ contacts' = res.table
        /\ Observe(Event("contacts.upsert", StoreSession, cs, FALSE, <<>>, fails), res)
        /\ UNCHANGED <<chats, messages, emitted, tasks, listenVars, retryVars, authVars>>

ContactUpdate ==
  \E updates \in ContactLists :
    LET res == contactUpdate(StoreLookup, contacts, StoreSession, updates, {})
    IN  /\ contacts' = res.table
        /\ Observe(Event("contacts.update", StoreSession, updates, FALSE, <<>>, {}), res)
        /\ UNCHANGED <<chats, messages, emitted, tasks, listenVars, retryVars, authVars>>

(***************************************************************************)
(* useSession (src/session.ts): the credentials and keys of a session in   *)
(* table Session, one row per (sessionId, id) holding a JSON text.         *)
(*                                                                         *)
(* A string is modelled as the sequence of its pieces: each of the         *)
(* characters '/', ':', '-' and '_' is a piece of its own and a run of     *)
(* other characters is one piece, so two strings are equal iff their       *)
(* sequences are.                                                          *)
(***************************************************************************)
\* fixId(id): id.replace(/\//g, '__').replace(/:/g, '-')
RECURSIVE fixId(_)
fixId(id) ==
  IF id = <<>> THEN <<>>
  ELSE (IF Head(id) = "/" THEN <<"_", "_">>
        ELSE IF Head(id) = ":" THEN <<"-">>
        ELSE <<Head(id)>>) \o fixId(Tail(id))

\* `${category}-${id}` of keys.get and keys.set
KeyId(category, id) == category \o <<"-">> \o id

\* values: an object with a byte array in it, falsy null, a function (for
\* which JSON.stringify returns undefined) and a BigInt (for which it throws)
KeyObject(n) == [type |-> "object", n |-> n, bytes |-> "Buffer"]
KeyNull == [type |-> "null"]
KeyFunction == [type |-> "function"]
KeyBigInt == [type |-> "bigint"]
Truthy(value) == value # KeyNull

\* JSON.stringify(data, BufferJSON.replacer): the text, with the byte array
\* as { type: 'Buffer', data: <base64> }
JSONStringify(data) ==
  IF data = KeyBigInt THEN [threw |-> TRUE]
  ELSE IF data = KeyFunction THEN [threw |-> FALSE, text |-> [is |-> "undefined"]]
  ELSE IF data = KeyNull THEN [threw |-> FALSE, text |-> [is |-> "null"]]
  ELSE [threw |-> FALSE,
        text |-> [is |-> "{}", json |-> data.n, bytes |-> "{type:Buffer,data:base64}"]]

\* JSON.parse(text, BufferJSON.reviver)
JSONParse(text) ==
  IF text.is = "undefined" THEN [threw |-> TRUE]
  ELSE IF text.is = "null" THEN [threw |-> FALSE, value |-> KeyNull]
  ELSE [threw |-> FALSE,
        value |-> [type |-> "object", n |-> text.json,
                   bytes |-> IF text.bytes = "{type:Buffer,data:base64}"
                             THEN "Buffer" ELSE text.bytes]]

\* the result of write, read or del, each of which catches what its body
\* throws: the table, the value returned and the lines logged with
\* logger.error
Done(rows, value, log) == [rows |-> rows, value |-> value, logged |-> log, threw |-> FALSE]

SessionWhere(s, id) == [sessionId |-> s, id |-> fixId(id)]

\* mutant: the text is written without the attempt to parse it back
writeUnchecked(rows, s, data, id, fails) ==
  LET jsonData == JSONStringify(data)
  IN  IF jsonData.threw THEN Done(rows, KeyNull, <<"An error occured during session write">>)
      ELSE IF fails THEN Done(rows, KeyNull, <<"An error occured during session write">>)
      ELSE Done(PrismaUpsert(rows, SessionWhere(s, id),
                             [data |-> jsonData.text, id |-> fixId(id), sessionId |-> s],
                             [data |-> jsonData.text]).table,
                KeyNull, <<>>)

\* write(data, id); `fails`: the storage call meets an error
write(rows, s, data, id, fails) ==
  LET jsonData == JSONStringify(data)
  IN  IF jsonData.threw THEN Done(rows, KeyNull, <<"An error occured during session write">>)
      ELSE IF JSONParse(jsonData.text).threw
      THEN Done(rows, KeyNull, <<"Cannot serialize session data properly. Skipping write.">>)
      ELSE IF fails THEN Done(rows, KeyNull, <<"An error occured during session write">>)
      ELSE Done(PrismaUpsert(rows, SessionWhere(s, id),
                             [data |-> jsonData.text, id |-> fixId(id), sessionId |-> s],
                             [data |-> jsonData.text]).table,
                KeyNull, <<>>)

\* read(id)
read(rows, s, id, fails) ==
  LET result == ByWhere(rows, SessionWhere(s, id))
  IN  IF fails THEN Done(rows, KeyNull, <<"An error occured during session read">>)
      ELSE IF result = {} THEN Done(rows, KeyNull, <<>>)
      ELSE LET parsed == JSONParse((CHOOSE r \in result : TRUE).data)
           IN  IF parsed.threw
               THEN Done(rows, IF id = <<"creds">> THEN [type |-> "initAuthCreds()"]
                               ELSE KeyNull,
                         <<"Failed to parse session data JSON. The data might be corrupted.">>)
               ELSE Done(rows, parsed.value, <<>>)

\* del(id): model.delete rejects with P2025 when no row has the id, which is
\* expected and logged with logger.debug
del(rows, s, id, fails) ==
  IF fails THEN Done(rows, KeyNull, <<"An error occured during session delete">>)
  ELSE IF ByWhere(rows, SessionWhere(s, id)) = {} THEN Done(rows, KeyNull, <<>>)
  ELSE Done(rows \ ByWhere(rows, SessionWhere(s, id)), KeyNull, <<>>)

\* one entry of the categoryMap given to keys.set
Entry(category, id, value) == [category |-> category, id |-> id, value |-> value]

\* keys.set(data): one task per entry, in the order the storage calls reach
\* the database; `fails`: the entries whose storage call meets an error
RECURSIVE keysSetFrom(_, _, _, _, _, _)
keysSetFrom(rows, s, entries, order, fails, k) ==
  IF k > Len(entries) THEN Done(rows, KeyNull, <<>>)
  ELSE LET e == entries[order[k]]
           sId == KeyId(e.category, e.id)
           r == IF Truthy(e.value) THEN write(rows, s, e.value, sId, order[k] \in fails)
                ELSE del(rows, s, sId, order[k] \in fails)
           rest == keysSetFrom(r.rows, s, entries, order, fails, k + 1)
       IN  [Done(rest.rows, KeyNull, r.logged \o rest.logged)
              EXCEPT !.threw = r.threw \/ rest.threw]

keysSet(rows, s, entries, order, fails) == keysSetFrom(rows, s, entries, order, fails, 1)

\* keys.get(type, ids): the value read for each id; `fails`: the ids whose
\* storage call meets an error
keysGet(rows, s, type, ids, fails) ==
  [id \in ids |-> read(rows, s, KeyId(type, id), id \in fails).value]

\* saveCreds()
saveCreds(rows, s, creds, fails) == write(rows, s, creds, <<"creds">>, fails)

\* ---- the calls explored
SessionCategory == <<"session">>
SenderKey == <<"sender", "-", "key">>
SenderKeyMemory == <<"sender", "-", "key", "-", "memory">>
KeyCategories == {SessionCategory, SenderKey, SenderKeyMemory}

\* ids: an address with a device, the same characters with '-', a plain id,
\* and two ids of the sender-key categories
KeyIds == {<<"a", ":", "1">>, <<"a", "-", "1">>, <<"b">>, <<"memory", "-", "g">>, <<"g">>}

KeyValues == {KeyObject(1), KeyObject(2)}

\* the categoryMaps given to keys.set by session "A"; session "B" writes one
\* of the same ids
CategoryMaps(s) ==
  IF s = "A"
  THEN {<<Entry(SessionCategory, <<"a", ":", "1">>, v)>> : v \in KeyValues \cup {KeyNull}}
       \cup { <<Entry(SessionCategory, <<"a", "-", "1">>, KeyObject(2))>>,
              <<Entry(SessionCategory, <<"a", ":", "1">>, KeyObject(1)),
                Entry(SessionCategory, <<"b">>, KeyObject(2))>>,
              <<Entry(SessionCategory, <<"b">>, KeyNull),
                Entry(SessionCategory, <<"a", ":", "1">>, KeyObject(2))>>,
              <<Entry(SessionCategory, <<"b">>, KeyFunction)>>,
              <<Entry(SessionCategory, <<"b">>, KeyBigInt)>>,
              <<Entry(SenderKey, <<"memory", "-", "g">>, KeyObject(1))>>,
              <<Entry(SenderKeyMemory, <<"g">>, KeyObject(2))>> }
  ELSE {<<Entry(SessionCategory, <<"a", ":", "1">>, KeyObject(2))>>}

\* keys.set(data) is called and settles
KeysSet ==
  \E s \in Sessions : \E entries \in CategoryMaps(s) :
    \E order \in Orders(Len(entries)), fails \in FailChoices(Len(entries)) :
      LET res == keysSet(sessionRows, s, entries, order, fails)
      IN  /\ sessionRows' = res.rows
          /\ lastKeys' = [op |-> "set", sessionId |-> s, data |-> entries, fails |-> fails,
                          before |-> sessionRows, result |-> KeyNull,
                          logged |-> res.logged, threw |-> res.threw]
          /\ UNCHANGED <<listenVars, retryVars, storeVars, moreVars>>

\* keys.get(type, ids) is called and settles
KeysGet ==
  \E s \in Sessions, type \in {SessionCategory}, fails \in SUBSET {<<"b">>} :
    LET ids == {<<"a", ":", "1">>, <<"b">>}
        reads == [id \in ids |-> read(sessionRows, s, KeyId(type, id), id \in fails)]
    IN  /\ lastKeys' = [op |-> "get", sessionId |-> s, data |-> [type |-> type, ids |-> ids],
                        fails |-> fails, before |-> sessionRows,
                        result |-> keysGet(sessionRows, s, type, ids, fails),
                        logged |-> reads[<<"a", ":", "1">>].logged \o reads[<<"b">>].logged,
                        threw |-> \E id \in ids : reads[id].threw]
        /\ UNCHANGED <<sessionRows, listenVars, retryVars, storeVars, moreVars>>

\* saveCreds() is called and settles
SaveCreds ==
  \E s \in {"A"}, fails \in BOOLEAN :
    LET creds == KeyObject(0)
        res == saveCreds(sessionRows, s, creds, fails)
    IN  /\ sessionRows' = res.rows
        /\ lastKeys' = [op |-> "saveCreds", sessionId |-> s, data |-> creds,
                        fails |-> IF fails THEN {1} ELSE {}, before |-> sessionRows,
                        result |-> KeyNull, logged |-> res.logged, threw |-> res.threw]
        /\ UNCHANGED <<listenVars, retryVars, storeVars, moreVars>>

(***************************************************************************)
(* The sanitizers of src/utils.ts on nested values.  A value is a record   *)
(* with its type in field t: a string or a number (field v), null,         *)
(* undefined, a function, a symbol, a Long object { low, high, unsigned }  *)
(* (field v), an array (field e, a sequence of values) or a plain object   *)
(* (field f, a function from keys to values).                              *)
(***************************************************************************)
Str(v) == [t |-> "string", v |-> v]
Num(v) == [t |-> "number", v |-> v]
LongObject(v) == [t |-> "Long", v |-> v]
Null == [t |-> "null"]
Undefined == [t |-> "undefined"]
Function == [t |-> "function"]
Symbol == [t |-> "symbol"]
Arr(e) == [t |-> "array", e |-> e]
Obj(f) == [t |-> "object", f |-> f]

\* the object with the entries of f whose value is not undefined
DefinedEntries(f) == [k \in {x \in DOMAIN f : f[x] # Undefined} |-> f[k]]

\* cleanObjectForPrisma(obj): functions and symbols become undefined, the
\* undefined items of an array and the undefined entries of an object are
\* left out, a Long becomes a number
RECURSIVE cleanObjectForPrisma(_)
cleanObjectForPrisma(obj) ==
  IF obj.t \in {"null", "undefined"} THEN obj
  ELSE IF obj.t \in {"function", "symbol"} THEN Undefined
  ELSE IF obj.t = "Long" THEN Num(obj.v)
  ELSE IF obj.t = "array"
  THEN Arr(SelectSeq([i \in DOMAIN obj.e |-> cleanObjectForPrisma(obj.e[i])],
                     LAMBDA item : item # Undefined))
  ELSE IF obj.t = "object"
  THEN Obj(DefinedEntries([k \in DOMAIN obj.f |-> cleanObjectForPrisma(obj.f[k])]))
  ELSE obj

\* transformPrisma(data) on such values: of the entries of data, a function
\* is deleted, a number or Long goes through toNumber, an object or array
\* through cleanObjectForPrisma, undefined and null are deleted, and any
\* other value is kept
transformPrismaValue(data) ==
  Obj([k \in {x \in DOMAIN data.f : data.f[x].t \notin {"function", "undefined", "null"}}
         |-> IF data.f[k].t \in {"number", "Long"} THEN Num(data.f[k].v)
             ELSE IF data.f[k].t \in {"object", "array"}
             THEN cleanObjectForPrisma(data.f[k])
             ELSE data.f[k]])

\* the timestamp fields of validateMessageData: numbers and nothing else
TimestampFields == {"messageTimestamp", "messageC2STimestamp"}

\* mutant: the fields outside the schema are kept
validateMessageDataValueKeepsUnknown(data) ==
  LET cleanedData == cleanObjectForPrisma(data).f
  IN  Obj(DefinedEntries(
        [k \in DOMAIN cleanedData |->
           IF k \in TimestampFields /\ cleanedData[k].t # "number"
           THEN Num(0)
           ELSE cleanedData[k]]))

\* validateMessageData(data) on such values: cleanObjectForPrisma, then the
\* fields outside the schema are deleted, a timestamp that is no number
\* becomes 0 (a string of digits its number), and undefined values are
\* deleted
validateMessageDataValue(data) ==
  LET cleanedData == cleanObjectForPrisma(data).f
      kept == DOMAIN cleanedData \cap validFields
  IN  Obj(DefinedEntries(
        [k \in kept |->
           IF k \in TimestampFields /\ cleanedData[k].t # "number"
           THEN Num(0)
           ELSE cleanedData[k]]))

\* the fields of the Chat schema that validateChatData lets through
validChatFields ==
  { "pkId", "sessionId", "archived", "conversationTimestamp", "createdAt", "createdBy",
    "displayName", "endOfHistoryTransfer", "endOfHistoryTransferType",
    "ephemeralExpiration", "ephemeralSettingTimestamp", "id", "isDefaultSubgroup",
    "isParentGroup", "lastMsgTimestamp", "lidJid", "markedAsUnread", "mediaVisibility",
    "messages", "muteEndTime", "name", "newJid", "notSpam", "oldJid", "pHash",
    "parentGroupId", "pinned", "pnJid", "pnhDuplicateLidThread", "readOnly", "shareOwnPn",
    "support", "suspended", "tcTokenSenderTimestamp", "tcTokenTimestamp", "terminated",
    "unreadCount", "unreadMentionCount", "lastMessageRecvTimestamp" }

ChatTimestampFields == {"conversationTimestamp", "lastMessageRecvTimestamp"}

\* validateChatData(data) on such values
validateChatDataValue(data) ==
  LET cleanedData == cleanObjectForPrisma(data).f
      kept == DOMAIN cleanedData \cap validChatFields
  IN  Obj(DefinedEntries(
        [k \in kept |->
           IF k \in ChatTimestampFields /\ cleanedData[k].t # "number"
           THEN Num(0)
           ELSE cleanedData[k]]))

\* the local filteredFields of the two functions: the names deleted
filteredFields(data, fields) == DOMAIN cleanObjectForPrisma(data).f \ fields

\* what the two functions hand to their caller besides the record they
\* return: nothing, filteredFields being neither returned nor logged (the
\* console.log that would print it is commented out)
ReportedFields(data, fields) == {}

\* the pipelines: the chat handler's and the message handler's
Pipelines == {"chat", "message"}
Sanitized(pipeline, record) ==
  IF pipeline = "chat" THEN transformPrismaValue(record)
  ELSE validateMessageDataValue(transformPrismaValue(record))

\* the two validators on their own
Validators == {"validateMessageData", "validateChatData"}
AllowlistOf(validator) ==
  IF validator = "validateMessageData" THEN validFields ELSE validChatFields
Validated(validator, record) ==
  IF validator = "validateMessageData" THEN validateMessageDataValue(record)
  ELSE validateChatDataValue(record)

\* ---- the records explored: an id, a field pushName with any kind of value
\* at the top level, and a field message with an object that holds any kind
\* of value under key a and an array under key b; for the validators, a
\* message or a chat with or without fields outside the schema
TopValues == {Str("p"), Num(1), LongObject(2), Function, Symbol, Null}
NestedValues == {Str("q"), Function, Symbol, Null}
ItemValues == {Function, Symbol, Num(3)}

Record(top, nested, item) ==
  Obj([id |-> Str("m1"),
       pushName |-> top,
       message |-> Obj([a |-> nested, b |-> Arr(<<item, Str("r")>>)])])

UnknownFields == {<<>>, <<"foo">>, <<"foo", "statusMentions">>}

WithUnknown(record, names) ==
  Obj([k \in Range(names) |-> Str("x")] @@ record.f)

MessageRecord(top, timestamp) ==
  Obj([id |-> Str("m1"), pushName |-> top, messageTimestamp |-> timestamp])

ChatRecord(top, timestamp) ==
  Obj([id |-> Str("x"), name |-> top, conversationTimestamp |-> timestamp])

SanitizeTask(function, record) ==
  [pipeline |-> function, record |-> record, done |-> FALSE, output |-> Undefined,
   reported |-> {}]

SanitizeInputs ==
  {SanitizeTask(p, Record(top, nested, item)) :
     p \in Pipelines, top \in TopValues, nested \in NestedValues, item \in ItemValues}
  \cup {SanitizeTask("validateMessageData", WithUnknown(MessageRecord(top, ts), names)) :
          top \in TopValues, ts \in {Num(5), Str("5"), Undefined}, names \in UnknownFields}
  \cup {SanitizeTask("validateChatData", WithUnknown(ChatRecord(top, ts), names)) :
          top \in TopValues, ts \in {Num(5), Str("5"), Undefined}, names \in UnknownFields}

SanitizeInit ==
  /\ ListenIdle /\ RetryIdle /\ StoreIdle /\ ContactsIdle /\ SessionIdle
  /\ tasks \in SanitizeInputs

\* the handler sanitizes the record before the write
Sanitize ==
  /\ ~tasks.done
  /\ tasks.pipeline \in Pipelines
  /\ tasks' = [tasks EXCEPT !.done = TRUE,
                            !.output = Sanitized(tasks.pipeline, tasks.record)]
  /\ UNCHANGED <<contacts, storeVars, listenVars, retryVars, authVars>>

\* a validator is called with the record and returns
Validate ==
  /\ ~tasks.done
  /\ tasks.pipeline \in Validators
  /\ tasks' = [tasks EXCEPT !.done = TRUE,
                            !.output = Validated(tasks.pipeline, tasks.record),
                            !.reported = ReportedFields(tasks.record,
                                                        AllowlistOf(tasks.pipeline))]
  /\ UNCHANGED <<contacts, storeVars, listenVars, retryVars, authVars>>

(***************************************************************************)
(* A history chunk and an incremental upsert of the same key at once.      *)
(* Task 1 handles a 'messaging-history.set' that is not the latest (no     *)
(* deleteMany), task 2 a 'chats.upsert' or 'messages.upsert' for the same  *)
(* chat or message.  The transaction of set reads (findMany, findUnique)   *)
(* in one step and writes and commits in another; an INSERT checks the     *)
(* unique key against the rows committed when it runs.                     *)
(***************************************************************************)
BulkEntities == {"chat", "message"}

\* the handler versions of the incremental upsert of an entity
UpsertHandlers(e) == IF e = "chat" THEN ChatHandlers ELSE {"part_002"}

\* the record of the history chunk and the record of the incremental event
BulkRecord(e, n) ==
  IF e = "chat" THEN CU(RaceChat, n) ELSE [key |-> RaceKey, messageTimestamp |-> n]
BulkSetValues == {1, 2}
BulkUpsertValues == {3, 4}

BulkWhere(e) == IF e = "chat" THEN RaceWhere ELSE MessageWhere(RaceSession, RaceKey)
BulkTable(e) == IF e = "chat" THEN chats ELSE messages

\* the data a handler builds from the record, without the key columns
BulkData(e, record) ==
  IF e = "chat" THEN transformPrisma(record)
  ELSE validateMessageData(transformPrisma(record))

\* `create: { ...data, sessionId }`, `{ ...validatedData, remoteJid, id, sessionId }`
BulkCreate(e, data) ==
  IF e = "chat" THEN Spread(data, [sessionId |-> RaceSession])
  ELSE validateMessageData(Spread(data, BulkWhere(e)))

\* `update: data`, `update: { ...data, id: undefined }`, `update: { ...validatedData }`
BulkUpdate(h, data) ==
  IF h \in ChatHandlers THEN UpsertUpdateOf(h, data) ELSE AsUpdate(data)

BulkTask(h, e, data) ==
  [pc |-> "called", handler |-> h, entity |-> e, data |-> data, found |-> FALSE,
   seen |-> <<>>, result |-> "none", committed |-> 0]

\* the place of a commit among the commits of the two calls
NextCommit == Cardinality({j \in TaskIds : tasks[j].pc # "idle" /\ tasks[j].committed > 0}) + 1

SameEntity(e) == \A j \in TaskIds : tasks[j].pc # "idle" => tasks[j].entity = e

\* a 'messaging-history.set' with one chat or one message reaches its handler
BulkSetCalled ==
  \E e \in BulkEntities, n \in BulkSetValues :
    /\ tasks[1].pc = "idle"
    /\ SameEntity(e)
    /\ tasks' = [tasks EXCEPT ![1] = BulkTask("set", e, BulkData(e, BulkRecord(e, n)))]
    /\ UNCHANGED <<contacts, storeVars, listenVars, retryVars, authVars>>

\* tx.chat.findMany({ where: { id: { in }, sessionId } }), tx.message.findUnique
BulkSetReads ==
  LET t == tasks[1]
  IN  /\ t.pc = "called"
      /\ t.handler = "set"
      /\ tasks' = [tasks EXCEPT ![1].pc = "read",
                     ![1].found = (ByWhere(BulkTable(t.entity), BulkWhere(t.entity)) # {})]
      /\ UNCHANGED <<contacts, storeVars, listenVars, retryVars, authVars>>

\* what the transaction of set writes, and its commit or rollback.  Chat: the
\* chats not found are created with createMany, the others are left alone.
\* Message: the messages not found are created with createMany skipDuplicates,
\* the others are updated.
BulkSetWrites ==
  LET t == tasks[1]
      row == BulkCreate(t.entity, t.data)
      res == IF t.entity = "chat"
             THEN IF t.found THEN Fulfilled(chats)
                  ELSE CreateInBatches(chats, <<row>>, CHAT_BATCH_SIZE)
             ELSE IF t.found
                  THEN PrismaUpdate(messages, BulkWhere(t.entity), AsUpdate(t.data))
                  ELSE Fulfilled(CreateManySkipDuplicates(messages, <<row>>))
  IN  /\ t.pc = "read"
      /\ t.handler = "set"
      /\ IF t.entity = "chat"
         THEN chats' = res.table /\ messages' = messages
         ELSE messages' = res.table /\ chats' = chats
      /\ tasks' = [tasks EXCEPT ![1].pc = "done",
                     ![1].result = IF res.ok THEN "fulfilled"
                                   ELSE IF t.found THEN "P2025" ELSE "P2002",
                     ![1].committed = IF res.ok THEN NextCommit ELSE 0]
      /\ UNCHANGED <<emitted, lastEv, pre, again, logged, rejected,
                     contacts, listenVars, retryVars, authVars>>

\* a 'chats.upsert' or 'messages.upsert' (append) with one record for the
\* same key reaches its handler
IncrementalCalled ==
  \E e \in BulkEntities, n \in BulkUpsertValues : \E h \in UpsertHandlers(e) :
    /\ tasks[2].pc = "idle"
    /\ SameEntity(e)
    /\ tasks' = [tasks EXCEPT ![2] = BulkTask(h, e, BulkData(e, BulkRecord(e, n)))]
    /\ UNCHANGED <<contacts, storeVars, listenVars, retryVars, authVars>>

\* the SELECT of prisma.<model>.upsert
IncrementalSelects ==
  LET t == tasks[2]
  IN  /\ t.pc = "called"
      /\ t.handler # "set"
      /\ tasks' = [tasks EXCEPT ![2].pc = "selected",
                     ![2].found = (ByWhere(BulkTable(t.entity), BulkWhere(t.entity)) # {})]
      /\ UNCHANGED <<contacts, storeVars, listenVars, retryVars, authVars>>

\* where a unique-constraint violation of the upsert leads: chat.ts logs it,
\* part_000 goes on to prisma.chat.update, part_002 hands it to
\* retryDatabaseOperation, which calls the upsert again for a retryable error
AfterUniqueViolation(h) ==
  IF h = "part_002"
  THEN IF IsRetryable(Err("P2002", {})) THEN "called" ELSE "done"
  ELSE OnUniqueViolation(h)

\* the INSERT or UPDATE of the upsert, chosen by what its SELECT found
IncrementalWrites ==
  LET t == tasks[2]
      table == BulkTable(t.entity)
      exists == ByWhere(table, BulkWhere(t.entity)) # {}
      res == PrismaUpsert(table, BulkWhere(t.entity), BulkCreate(t.entity, t.data),
                          BulkUpdate(t.handler, t.data))
  IN  /\ t.pc = "selected"
      /\ IF t.found \/ ~exists
         THEN /\ IF t.entity = "chat"
                 THEN chats' = res.table /\ messages' = messages
                 ELSE messages' = res.table /\ chats' = chats
              /\ tasks' = [tasks EXCEPT ![2].pc = "done", ![2].result = "fulfilled",
                                        ![2].committed = NextCommit]
         ELSE /\ chats' = chats /\ messages' = messages
              /\ tasks' = [tasks EXCEPT ![2].pc = AfterUniqueViolation(t.handler),
                                        ![2].result = "P2002"]
      /\ UNCHANGED <<emitted, lastEv, pre, again, logged, rejected,
                     contacts, listenVars, retryVars, authVars>>

\* part_000: after P2002, prisma.chat.update
IncrementalFallsBack ==
  LET t == tasks[2]
      upd == PrismaUpdate(chats, RaceWhere, UpsertUpdateOf(t.handler, t.data))
  IN  /\ t.pc = "P2002-caught"
      /\ t.handler = "part_000"
      /\ Has(t, "entity")
      /\ chats' = IF upd.ok THEN upd.table ELSE chats \cup {BulkCreate("chat", t.data)}
      /\ tasks' = [tasks EXCEPT ![2].pc = "done", ![2].result = "fulfilled",
                                ![2].committed = NextCommit]
      /\ UNCHANGED <<messages, emitted, lastEv, pre, again, logged, rejected,
                     contacts, listenVars, retryVars, authVars>>

\* both calls have settled; the next events arrive, for the stored record or
\* for one that is not stored
BulkRaceSettles ==
  /\ \A i \in TaskIds : tasks[i].pc = "done"
  /\ tasks' = [i \in TaskIds |-> IdleTask]
  /\ \/ chats' = chats /\ messages' = messages
     \/ chats' = {} /\ messages' = {}
  /\ UNCHANGED <<emitted, lastEv, pre, again, logged, rejected,
                 contacts, listenVars, retryVars, authVars>>

(***************************************************************************)
(* Updates of one record in one event and in two successive events.  The   *)
(* handlers are async functions registered with event.on: emit starts a    *)
(* handler and does not wait for the promise it returns, so the handler of *)
(* the second event runs while the first one waits for the database.       *)
(* Inside one call the records are awaited one after the other.            *)
(***************************************************************************)
OrderEntities == {"chat", "message"}

\* the updates of chat x and of message m1
OrderUpdates(e) ==
  IF e = "chat" THEN {CU(RaceChat, 1), CU(RaceChat, 2), CU(RaceChat, 0)}
  ELSE {[key |-> RaceKey, update |-> [status |-> n]] : n \in {2, 3}}
         \cup {[key |-> RaceKey, update |-> [starred |-> TRUE]]}

\* the events: one update, or two updates of the record in one event
OrderEvents(e) ==
  {<<u>> : u \in OrderUpdates(e)}
    \cup {<<u1, u2>> : u1 \in OrderUpdates(e), u2 \in OrderUpdates(e)}

OrderTask(e, updates) ==
  [pc |-> "called", handler |-> "update", entity |-> e, data |-> updates, k |-> 1,
   found |-> FALSE, seen |-> NoData, result |-> "none", failed |-> {}]

\* `for (const update of updates)`: the next record, or the end of the call
NextRecord(t) ==
  [t EXCEPT !.k = t.k + 1,
            !.pc = IF t.k + 1 > Len(t.data) THEN "done" ELSE "called",
            !.result = IF t.k + 1 > Len(t.data) THEN "fulfilled" ELSE t.result]

\* the first of two events arrives: 'chats.update' or 'messages.update'
FirstUpdateArrives ==
  \E e \in OrderEntities : \E updates \in OrderEvents(e) :
    /\ \A i \in TaskIds : tasks[i].pc = "idle"
    /\ tasks' = [tasks EXCEPT ![1] = OrderTask(e, updates)]
    /\ pre' = Tables
    /\ UNCHANGED <<chats, messages, emitted, lastEv, again, logged, rejected,
                   contacts, listenVars, retryVars, authVars>>

\* the second event arrives, for the same record, while the first is handled
\* or after it
SecondUpdateArrives ==
  /\ tasks[1].pc # "idle"
  /\ tasks[1].handler = "update"
  /\ tasks[2].pc = "idle"
  /\ \E u \in OrderUpdates(tasks[1].entity) :
       tasks' = [tasks EXCEPT ![2] = OrderTask(tasks[1].entity, <<u>>)]
  /\ UNCHANGED <<contacts, storeVars, listenVars, retryVars, authVars>>

\* chat: the SELECT of prisma.chat.upsert.  message: tx.message.findFirst,
\* which ends the transaction of the record when no row is found
UpdateReads(i) ==
  LET t == tasks[i]
      row == IF t.entity = "chat" THEN ByWhere(chats, RaceWhere)
             ELSE ByWhere(messages, MessageWhere(RaceSession, RaceKey))
  IN  /\ t.pc = "called"
      /\ t.handler = "update"
      /\ tasks' = [tasks EXCEPT ![i] =
                     IF row = {}
                     THEN IF t.entity = "chat" THEN [t EXCEPT !.pc = "read", !.found = FALSE]
                          ELSE NextRecord(t)
                     ELSE [t EXCEPT !.pc = "read", !.found = TRUE,
                                    !.seen = CHOOSE r \in row : TRUE]]
      /\ UNCHANGED <<contacts, storeVars, listenVars, retryVars, authVars>>

\* mutant: the unreadCount of the record is written as it is
ChatUpdateOfSet(data) == AsUpdate(data)

\* the `update` of the upsert of chat.ts for one record
ChatUpdateOf(data) ==
  IF Has(data, "unreadCount")
  THEN Spread(AsUpdate(data), [unreadCount |-> unreadCountUpdate(data)])
  ELSE AsUpdate(data)

\* chat: the INSERT or UPDATE of the upsert, chosen by what its SELECT found.
\* message: tx.message.upsert of { ...prevData, ...update } and the commit
UpdateWrites(i) ==
  LET t == tasks[i]
      update == t.data[t.k]
      data == transformPrisma(update)
      exists == ByWhere(chats, RaceWhere) # {}
      validatedData == validateMessageData(transformPrisma(Spread(t.seen, update.update)))
      where == MessageWhere(RaceSession, RaceKey)
      res == IF t.entity = "chat"
             THEN IF t.found \/ ~exists
                  THEN PrismaUpsert(chats, RaceWhere,
                                    Spread(data, [id |-> update.id, sessionId |-> RaceSession]),
                                    ChatUpdateOf(data))
                  ELSE Rejected(chats)
             ELSE PrismaUpsert(messages, where, Spread(validatedData, where),
                               AsUpdate(validatedData))
  IN  /\ t.pc = "read"
      /\ t.handler = "update"
      /\ IF t.entity = "chat"
         THEN chats' = res.table /\ messages' = messages
         ELSE messages' = res.table /\ chats' = chats
      /\ tasks' = [tasks EXCEPT ![i] =
                     NextRecord([t EXCEPT !.failed = IF res.ok THEN @ ELSE @ \cup {t.k}])]
      /\ UNCHANGED <<emitted, lastEv, pre, again, logged, rejected,
                     contacts, listenVars, retryVars, authVars>>

\* the row message m1 is stored as by 'messages.upsert'
OrderStored ==
  messageUpsert(Stores({}, {}, {}), RaceSession, <<Msg1(UserJid)>>, "append",
                AllOk(1), {}).table

\* every call has ended; before the next events the chat stays or is deleted,
\* and message m1 is stored as it arrived or is not stored
UpdatesSettle ==
  /\ tasks[1].pc = "done"
  /\ tasks[1].handler = "update"
  /\ tasks[2].pc \in {"idle", "done"}
  /\ tasks' = [i \in TaskIds |-> IdleTask]
  /\ \/ chats' = chats /\ \A r \in chats : Has(r, "unreadCount") => r.unreadCount < MaxUnread - 2
     \/ chats' = {}
  /\ messages' \in {OrderStored, {}}
  /\ UNCHANGED <<emitted, lastEv, pre, again, logged, rejected,
                 contacts, listenVars, retryVars, authVars>>

(***************************************************************************)
(* messageHandler.set, one step per statement of a batch transaction.      *)
(* The handler cuts the messages into batches and handles them group by    *)
(* group: `currentBatches.map(async ...)` starts the transaction of every  *)
(* batch of the group, Promise.all waits for them.  A transaction shows    *)
(* its writes to the others when it commits; a failure at any statement    *)
(* rolls it back, the batch logs and re-throws, Promise.all rejects and    *)
(* the handler logs and re-throws while the other batches still run.       *)
(***************************************************************************)
BatchSession == "A"

\* a history of n messages of one chat with a delivery status
StatusHistory(n) == [i \in 1..n |-> [key |-> Key(UserJid, ToString(i)), status |-> 2]]

\* the message counts explored: no message, two batches, five batches
\* in two groups, and the first count of the second volume tier
BatchCounts == {0, 60, MaxHistory, 1001}

\* the largest number of batches of these counts
MaxBatches == 41

\* the rows an earlier 'messages.upsert' left for the first messages
EarlierCount == 55
EarlierRows ==
  {Spread([key |-> Key(UserJid, ToString(i)), status |-> 1],
          MessageWhere(BatchSession, Key(UserJid, ToString(i)))) : i \in 1..EarlierCount}

IdleCall == [pc |-> "idle"]

\* the statements of a batch transaction, in order; "pending": not started
TxSteps == <<"started", "read", "created">>
InFlightSteps == Range(TxSteps)

\* mutant: every remaining batch is dispatched at once
GroupEndUnbounded(i, conc, n) == n

\* batches.slice(i, i + MAX_CONCURRENT_BATCHES): the index of its last batch
GroupEnd(i, conc, n) == Min(i + conc - 1, n)

\* the batches of a call: `batches`, built from `messages` and BATCH_SIZE
BatchesOf(call) == Batches(StatusHistory(call.count), call.config.BATCH_SIZE)

\* the state of the call when the group starting at batch i has been mapped
GroupStarted(call, i) ==
  LET n == Len(call.tx)
      last == GroupEnd(i, call.config.MAX_CONCURRENT_BATCHES, n)
  IN  [call EXCEPT !.i = i,
                   !.tx = [b \in 1..n |-> IF b \in i..last THEN "started" ELSE call.tx[b]]]

\* 'messaging-history.set' with n messages reaches the handler; the largest
\* history is the first one of its session
SetCalled ==
  \E n \in BatchCounts :
    LET msgs == StatusHistory(n)
        config == getBatchConfig(Len(msgs))
        batches == Batches(msgs, config.BATCH_SIZE)
        call == [pc |-> "running", count |-> n, config |-> config,
                 i |-> 1, tx |-> [b \in 1..Len(batches) |-> "pending"],
                 failedAt |-> [b \in 1..Len(batches) |-> "none"]]
    IN  /\ tasks.pc = "idle"
        /\ n > MaxHistory => messages = {}
        /\ tasks' = IF Len(batches) = 0 THEN [call EXCEPT !.pc = "returned"]
                    ELSE GroupStarted(call, 1)
        /\ pre' = Tables
        /\ logged' = <<>>
        /\ rejected' = FALSE
        /\ UNCHANGED <<chats, messages, emitted, lastEv, again,
                       contacts, listenVars, retryVars, authVars>>

NextStep(step) == CHOOSE k \in DOMAIN TxSteps : TxSteps[k] = step

\* a statement of the transaction of batch b succeeds: the findUnique loop,
\* createMany
BatchProceeds(b) ==
  /\ tasks.pc # "idle"
  /\ b \in DOMAIN tasks.tx
  /\ tasks.tx[b] \in {"started", "read"}
  /\ tasks' = [tasks EXCEPT !.tx[b] = TxSteps[NextStep(tasks.tx[b]) + 1]]
  /\ UNCHANGED <<contacts, storeVars, listenVars, retryVars, authVars>>

\* the update loop succeeds and the transaction of batch b commits: its
\* creates and updates become visible
BatchCommits(b) ==
  /\ tasks.pc # "idle"
  /\ b \in DOMAIN tasks.tx
  /\ tasks.tx[b] = "created"
  /\ messages' = messageSetTx(messages, BatchSession, BatchesOf(tasks)[b]).table
  /\ tasks' = [tasks EXCEPT !.tx[b] = "committed"]
  /\ UNCHANGED <<chats, emitted, lastEv, pre, again, logged, rejected,
                 contacts, listenVars, retryVars, authVars>>

\* mutant: the rows createMany inserted stay when a later statement fails
RolledBackKeepsCreates(t, batch, step) ==
  IF step = "created"
  THEN CreateManySkipDuplicates(t,
         [k \in DOMAIN batch |->
            validateMessageData(Spread(transformPrisma(batch[k]),
                                       MessageWhere(BatchSession, batch[k].key)))])
  ELSE t

\* the table after the transaction of `batch` failed at `step`: $transaction
\* rolls back what its statements wrote
RolledBack(t, batch, step) == t

\* a statement of the transaction of batch b fails, or its timeout elapses:
\* rollback, the batch logs and re-throws; Promise.all rejects with the first
\* failure and the handler logs and re-throws
BatchFails(b) ==
  /\ tasks.pc # "idle"
  /\ b \in DOMAIN tasks.tx
  /\ tasks.tx[b] \in InFlightSteps
  /\ tasks' = [tasks EXCEPT !.tx[b] = "failed", !.failedAt[b] = tasks.tx[b],
                            !.pc = "thrown"]
  /\ logged' = logged \o <<"Error processing message batch">>
                 \o (IF tasks.pc = "running"
                     THEN <<"An error occured during messages set">> ELSE <<>>)
  /\ rejected' = TRUE
  /\ messages' = RolledBack(messages, BatchesOf(tasks)[b], tasks.tx[b])
  /\ UNCHANGED <<chats, emitted, lastEv, pre, again,
                 contacts, listenVars, retryVars, authVars>>

\* Promise.all fulfils: the next group is mapped, or the handler returns
GroupCompletes ==
  LET n == Len(tasks.tx)
      last == GroupEnd(tasks.i, tasks.config.MAX_CONCURRENT_BATCHES, n)
  IN  /\ tasks.pc = "running"
      /\ \A b \in tasks.i..last : tasks.tx[b] = "committed"
      /\ tasks' = IF tasks.i + tasks.config.MAX_CONCURRENT_BATCHES > n
                  THEN [tasks EXCEPT !.pc = "returned"]
                  ELSE GroupStarted(tasks, tasks.i + tasks.config.MAX_CONCURRENT_BATCHES)
      /\ UNCHANGED <<contacts, storeVars, listenVars, retryVars, authVars>>

\* the call has ended and no transaction is left; before the next history the
\* session holds no message or the rows of an earlier upsert
SetEnds ==
  /\ tasks.pc \in {"returned", "thrown"}
  /\ \A b \in DOMAIN tasks.tx : tasks.tx[b] \notin InFlightSteps
  /\ tasks' = IdleCall
  /\ messages' \in {{}, EarlierRows}
  /\ UNCHANGED <<chats, emitted, lastEv, pre, again, logged, rejected,
                 contacts, listenVars, retryVars, authVars>>

BatchInit ==
  /\ ListenIdle /\ RetryIdle /\ StoreIdle /\ ContactsIdle /\ SessionIdle
  /\ tasks = IdleCall

(***************************************************************************)
(* getBatchConfig as a function of the message count.                      *)
(***************************************************************************)
\* the message counts explored: around every threshold, and far above
ConfigCounts ==
  (0..2) \cup (999..1002) \cup (4999..5002) \cup (9999..10002) \cup {20000, 100000}

NoConfig == [BATCH_SIZE |-> 0, MAX_CONCURRENT_BATCHES |-> 0, TIMEOUT |-> 0]

\* two histories of n and of m messages, not configured yet
ConfigInputs ==
  {[n |-> n, m |-> m, done |-> FALSE, ofN |-> NoConfig, ofM |-> NoConfig] :
     n \in ConfigCounts, m \in ConfigCounts}

ConfigInit ==
  /\ ListenIdle /\ RetryIdle /\ StoreIdle /\ ContactsIdle /\ SessionIdle
  /\ tasks \in ConfigInputs

\* `const { BATCH_SIZE, MAX_CONCURRENT_BATCHES, TIMEOUT } = getBatchConfig(messages.length)`
Configure ==
  /\ ~tasks.done
  /\ tasks' = [tasks EXCEPT !.done = TRUE, !.ofN = getBatchConfig(tasks.n),
                            !.ofM = getBatchConfig(tasks.m)]
  /\ UNCHANGED <<contacts, storeVars, listenVars, retryVars, authVars>>

(***************************************************************************)
(* The batches and the transactions of messageHandler.set as a function of *)
(* the message count.                                                      *)
(***************************************************************************)
MaxSmallCount == 110   \* every count from 0 to this one is explored

\* also the counts around the threshold where BATCH_SIZE becomes 25
PartitionCounts == (0..MaxSmallCount) \cup {999, 1000, 1001, 1026}

PartitionInputs ==
  {[count |-> n, built |-> FALSE, batches |-> <<>>, transactions |-> 0] :
     n \in PartitionCounts}

PartitionInit ==
  /\ ListenIdle /\ RetryIdle /\ StoreIdle /\ ContactsIdle /\ SessionIdle
  /\ tasks \in PartitionInputs

\* `for (i = 0; i < batches.length; i += MAX_CONCURRENT_BATCHES)`: the number
\* of prisma.$transaction calls of the groups starting at batch i and after
RECURSIVE TransactionsFrom(_, _, _)
TransactionsFrom(i, conc, n) ==
  IF i > n THEN 0
  ELSE (GroupEnd(i, conc, n) - i + 1) + TransactionsFrom(i + conc, conc, n)

\* the handler builds the batches of its messages and goes through the groups
BuildBatches ==
  /\ ~tasks.built
  /\ LET config == getBatchConfig(tasks.count)
         batches == Batches(StatusHistory(tasks.count), config.BATCH_SIZE)
     IN  tasks' = [tasks EXCEPT
                     !.built = TRUE,
                     !.batches = batches,
                     !.transactions =
                       TransactionsFrom(1, config.MAX_CONCURRENT_BATCHES, Len(batches))]
  /\ UNCHANGED <<contacts, storeVars, listenVars, retryVars, authVars>>

-----------------------------------------------------------------------------
(* Specifications                                                          *)

Init == ListenIdle /\ RetryIdle /\ StoreIdle /\ ContactsIdle /\ TasksIdle /\ SessionIdle

\* ---- the chat handlers
ChatNext ==
  \/ ChatSet
  \/ ChatUpsert
  \/ ChatUpdate
  \/ ChatDel

SpecChat == Init /\ [][ChatNext]_vars

\* ---- retryDatabaseOperation
RetryCalled ==
  \E m \in 1..MaxRetriesArg :
    RetryCall(m) /\ UNCHANGED <<listenVars, authVars, storeVars, moreVars>>
OperationFulfils == AttemptSucceeds /\ UNCHANGED <<listenVars, authVars, storeVars, moreVars>>
OperationRejects ==
  \E e \in ErrorKinds, j \in Jitter :
    AttemptFails(e, j) /\ UNCHANGED <<listenVars, authVars, storeVars, moreVars>>
TimerFires == BackoffElapses /\ UNCHANGED <<listenVars, authVars, storeVars, moreVars>>

RetryNext ==
  \/ RetryCalled
  \/ OperationFulfils
  \/ OperationRejects
  \/ TimerFires

SpecRetry == Init /\ [][RetryNext]_vars

\* ---- listen() / unlisten()
ListenNext ==
  \/ \E h \in Handlers : HandlerListen(h) /\ UNCHANGED <<retryVars, authVars, storeVars, moreVars>>
  \/ \E h \in Handlers : HandlerUnlisten(h) /\ UNCHANGED <<retryVars, authVars, storeVars, moreVars>>
  \/ StoreListen /\ UNCHANGED <<retryVars, authVars, storeVars, moreVars>>
  \/ StoreUnlisten /\ UNCHANGED <<retryVars, authVars, storeVars, moreVars>>
  \/ \E ev \in EventNames : Emit(ev) /\ UNCHANGED <<retryVars, authVars, storeVars, moreVars>>

SpecListen == Init /\ [][ListenNext]_vars

\* ---- the message handlers
MessageNext ==
  \/ MessageSet
  \/ MessageUpsert
  \/ MessageUpdate
  \/ MessageDel
  \/ EmittedChatUpsert

SpecMessage == Init /\ [][MessageNext]_vars

\* ---- reactions and receipts of stored messages
ReactionNext ==
  \/ MessageArrives
  \/ MessageReaction
  \/ MessageReceipt

SpecReaction == Init /\ [][ReactionNext]_vars

\* ---- the first history sync of the sessions
HistoryNext ==
  \/ HistorySync
  \/ HistoryAppend

SpecHistory == Init /\ [][HistoryNext]_vars

\* ---- two chats.upsert events for one conversation, handled at once
UpsertRaceNext ==
  \/ \E i \in TaskIds : UpsertCalled(i)
  \/ \E i \in TaskIds : UpsertSelects(i)
  \/ \E i \in TaskIds : UpsertWrites(i)
  \/ \E i \in TaskIds : UpsertFallsBack(i)
  \/ RaceSettles

SpecUpsertRace == Init /\ [][UpsertRaceNext]_vars

\* ---- two reactions or receipts of one message, handled at once
TxRaceNext ==
  \/ MessageArrives
  \/ \E i \in TaskIds : TxCalled(i)
  \/ \E i \in TaskIds : TxReads(i)
  \/ \E i \in TaskIds : TxWrites(i)
  \/ TxSettle

SpecTxRace == Init /\ [][TxRaceNext]_vars

\* ---- the identity resolver as a function
ResolveNext ==
  \/ ResolveOnce
  \/ ResolveTwice

SpecResolve == ResolveInit /\ [][ResolveNext]_vars

\* ---- the chat handler with address resolution
AliasNext ==
  \/ AliasChatSet
  \/ AliasChatUpsert
  \/ AliasChatUpdate

SpecAlias == Init /\ [][AliasNext]_vars

\* ---- every event of one session
StoreNext ==
  \/ StoreHistorySet
  \/ StoreChatsUpsert
  \/ StoreChatsUpdate
  \/ StoreChatsDelete
  \/ StoreContactsUpsert
  \/ StoreContactsUpdate
  \/ StoreMessagesUpdate
  \/ StoreReceipt
  \/ StoreReaction

SpecStore == Init /\ [][StoreNext]_vars

\* ---- incremental events whose writes fail record by record
IsolationNext ==
  \/ IsolatedChatsUpdate
  \/ IsolatedContactsUpdate
  \/ IsolatedMessagesUpsert
  \/ IsolatedMessagesUpdate
  \/ IsolatedReceipt
  \/ IsolatedReaction

SpecIsolation == Init /\ [][IsolationNext]_vars

\* ---- the contact handler
ContactNext ==
  \/ ContactSet
  \/ ContactUpsert
  \/ ContactUpdate

SpecContact == Init /\ [][ContactNext]_vars

\* ---- session storage
SessionNext ==
  \/ KeysSet
  \/ KeysGet
  \/ SaveCreds

SpecSession == Init /\ [][SessionNext]_vars

\* ---- the sanitizers
SanitizeNext ==
  \/ Sanitize
  \/ Validate

SpecSanitize == SanitizeInit /\ [][SanitizeNext]_vars

\* ---- a history chunk and an incremental upsert of one key, handled at once
BulkRaceNext ==
  \/ BulkSetCalled
  \/ BulkSetReads
  \/ BulkSetWrites
  \/ IncrementalCalled
  \/ IncrementalSelects
  \/ IncrementalWrites
  \/ IncrementalFallsBack
  \/ BulkRaceSettles

SpecBulkRace == Init /\ [][BulkRaceNext]_vars

\* ---- updates of one record in one event and in two successive events
OrderNext ==
  \/ FirstUpdateArrives
  \/ SecondUpdateArrives
  \/ \E i \in TaskIds : UpdateReads(i)
  \/ \E i \in TaskIds : UpdateWrites(i)
  \/ UpdatesSettle

SpecOrder == Init /\ [][OrderNext]_vars

\* ---- messageHandler.set, one step per statement of a batch transaction
BatchNext ==
  \/ SetCalled
  \/ \E b \in 1..MaxBatches : BatchProceeds(b)
  \/ \E b \in 1..MaxBatches : BatchCommits(b)
  \/ \E b \in 1..MaxBatches : BatchFails(b)
  \/ GroupCompletes
  \/ SetEnds

SpecBatches == BatchInit /\ [][BatchNext]_vars

\* ---- getBatchConfig as a function
ConfigNext == Configure

SpecConfig == ConfigInit /\ [][ConfigNext]_vars

\* ---- the batches of a history of every size
PartitionNext == BuildBatches

SpecPartition == PartitionInit /\ [][PartitionNext]_vars

-----------------------------------------------------------------------------
(* Claims                                                                  *)

\* how many times the callback of handler h for event ev is registered
RegisteredTimes(h, ev) ==
  Cardinality({i \in DOMAIN listeners[ev] : listeners[ev][i] = Callback(h, ev)})

\* C1: after any sequence of listen() and unlisten() calls, on the handlers
\* or on the Store, every callback of a handler is registered on the emitter
\* exactly once if the handler is listening and not at all otherwise; a
\* listen() made while listening and an unlisten() made while not listening
\* change nothing.
C1_RegisteredOnceIffListening ==
  /\ \A h \in Handlers : \A ev \in Range(EventsOf(h)) :
       RegisteredTimes(h, ev) = IF listening[h] THEN 1 ELSE 0
  /\ (lastCall.op = "listen" /\ lastCall.all) => ~lastCall.changed
  /\ (lastCall.op = "unlisten" /\ lastCall.none) => ~lastCall.changed

\* C1 witness: listen() was called on a handler that was listening, after an
\* emit that reached all three handlers
C1_Witness ==
  /\ lastCall.op = "listen" /\ lastCall.who = "chat" /\ lastCall.all
  /\ Len(invoked) = 3
  /\ ~listening["contact"]

\* the claims' classification of an error as transient
Transient(e) ==
  e.code = "P2034" \/ "deadlock" \in e.words \/ "write conflict" \in e.words

AllTransient(errs) == \A i \in DOMAIN errs : Transient(errs[i].error)

\* C8: when attempts 1..k fail with transient errors and attempt k+1
\* succeeds, k < maxRetries, the call returns the result of attempt k+1 after
\* exactly k waits and k+1 invocations; it does not throw while every failure
\* so far was transient and attempts are left.
C8_ReturnsFirstSuccess ==
  /\ rpc = "returned" =>
       /\ outcome.kind = "returned"
       /\ outcome.value.at = Len(observed) + 1
       /\ invocations = Len(observed) + 1
       /\ Len(delays) = Len(observed)
       /\ Len(observed) < maxRetries
  /\ (AllTransient(observed) /\ Len(observed) < maxRetries) => rpc # "thrown"
  /\ (rpc = "try" /\ AllTransient(observed)) => attempt = Len(observed) + 1

\* C8 witness: two transient failures, then success, with maxRetries = 3
C8_Witness ==
  /\ rpc = "returned" /\ maxRetries = 3
  /\ Len(observed) = 2 /\ AllTransient(observed)
  /\ invocations = 3 /\ Len(delays) = 2

\* C9: an error that is not transient is not retried: the operation is not
\* invoked again, no backoff is waited after it, and that same error is
\* thrown; when it is the first error, the operation was invoked exactly once
\* and no backoff was waited at all.
C9_NonTransientPropagates ==
  (observed # <<>> /\ ~Transient(observed[Len(observed)].error)) =>
    /\ rpc = "thrown"
    /\ outcome = [kind |-> "thrown", value |-> observed[Len(observed)]]
    /\ invocations = Len(observed)
    /\ Len(delays) = Len(observed) - 1
    /\ AllTransient(SubSeq(observed, 1, Len(observed) - 1))

\* C9 witness: the first attempt fails with a unique-constraint error
C9_Witness ==
  /\ rpc = "thrown" /\ invocations = 1 /\ delays = <<>>
  /\ Len(observed) = 1 /\ observed[1].error.code = "P2002"

RetryRunning == rpc \in {"try", "wait"}

RetryProgress == OperationFulfils \/ OperationRejects \/ TimerFires

\* C10: when every attempt fails with a transient error the operation is
\* invoked exactly maxRetries times and the error object of the last attempt
\* is thrown as it is; the operation is never invoked more than maxRetries
\* times, and the call terminates: it is never stuck, and every step it takes
\* is one of at most maxRetries invocations or fewer than maxRetries waits.
C10_ExhaustedRethrowsLast ==
  /\ invocations <= maxRetries
  /\ Len(delays) < maxRetries
  /\ (AllTransient(observed) /\ Len(observed) = maxRetries) =>
       /\ rpc = "thrown"
       /\ invocations = maxRetries
       /\ outcome = [kind |-> "thrown", value |-> observed[maxRetries]]
       /\ outcome.value.at = maxRetries
  /\ (rpc = "thrown" /\ AllTransient(observed)) => Len(observed) = maxRetries
  /\ RetryRunning => ENABLED RetryProgress

\* C10 witness: three transient failures with maxRetries = 3
C10_Witness ==
  /\ rpc = "thrown" /\ maxRetries = 3 /\ invocations = 3
  /\ Len(observed) = 3 /\ AllTransient(observed)

-----------------------------------------------------------------------------
\* ---- claims about the chat handlers (SpecChat)

\* the rows of table t that belong to sessions other than s
OfOtherSessions(t, s) == {r \in t : r.sessionId # s}

\* the records of the last event that name a chat
Identified == {i \in DOMAIN lastEv.payload : Has(lastEv.payload[i], "id")}

\* C2: handling the same chat-upsert event twice in a row, with no storage
\* failure, leaves the table as the first handling left it, with exactly one
\* row for each identity the event names.
C2_UpsertIdempotent ==
  (again /\ lastEv.kind = "chats.upsert")
    => /\ chats = pre.chats
       /\ \A i \in Identified :
            Cardinality(ByKey(chats, lastEv.sessionId, lastEv.payload[i].id)) = 1

\* the unreadCount the claim expects after the records k.. of `updates` are
\* applied to a row of chat `id` that holds n; a record that names another
\* chat, carries no number or hit a storage error changes nothing
RECURSIVE ExpectedUnread(_, _, _, _, _)
ExpectedUnread(n, updates, id, fails, k) ==
  IF k > Len(updates) THEN n
  ELSE LET u == updates[k]
           applies == /\ Has(u, "id") /\ u.id = id
                      /\ Has(u, "unreadCount") /\ k \notin fails
           d == u.unreadCount
       IN  ExpectedUnread(IF ~applies THEN n ELSE IF d > 0 THEN n + d ELSE d,
                          updates, id, fails, k + 1)

\* C3: after a chat-update event, a row that held unreadCount n holds n + d
\* for a record with d > 0, d for a record with d <= 0, and n when the
\* record carries no numeric unreadCount.
C3_UnreadCountDelta ==
  lastEv.kind = "chats.update"
    => \A r \in pre.chats :
         (r.sessionId = lastEv.sessionId /\ Has(r, "unreadCount"))
           => \E q \in chats :
                /\ ByKey(chats, r.sessionId, r.id) = {q}
                /\ Has(q, "unreadCount")
                /\ q.unreadCount
                     = ExpectedUnread(r.unreadCount, lastEv.payload, r.id, lastEv.fails, 1)

\* a row holding 3 received { unreadCount: 2 } and holds 5; one holding 3
\* received { unreadCount: 0 } or -1 and holds that value
C3_Witness ==
  /\ lastEv.kind = "chats.update"
  /\ lastEv.fails = {}
  /\ lastEv.payload = <<CU("x", 2)>>
  /\ [sessionId |-> lastEv.sessionId, id |-> "x", unreadCount |-> 3] \in pre.chats
  /\ [sessionId |-> lastEv.sessionId, id |-> "x", unreadCount |-> 5] \in chats

\* the history-set event of the scenario: chats [{ id: "x" }], isLatest
IsHistorySetX(e) ==
  /\ e.kind = "messaging-history.set"
  /\ e.isLatest
  /\ e.fails = {}
  /\ e.payload = <<C("x")>>

\* the chat-upsert event of the scenario: [{ id: "x", unreadCount: 1 }]
IsUpsertX1(e) ==
  /\ e.kind = "chats.upsert"
  /\ e.fails = {}
  /\ e.payload = <<CU("x", 1)>>

\* C5: from an empty store, the history-set event and then the chat-upsert
\* event of the same session leave exactly one row for chat "x", and its
\* unreadCount is 1.
C5_HistoryThenUpsert ==
  [][ ( /\ IsHistorySetX(lastEv)
        /\ pre.chats = {} /\ pre.messages = {}
        /\ IsUpsertX1(lastEv')
        /\ lastEv'.sessionId = lastEv.sessionId )
      => chats' = {[sessionId |-> lastEv.sessionId, id |-> "x", unreadCount |-> 1]}
    ]_vars

C5_Witness ==
  /\ IsUpsertX1(lastEv)
  /\ pre.chats = {[sessionId |-> lastEv.sessionId, id |-> "x"]}
  /\ chats = {[sessionId |-> lastEv.sessionId, id |-> "x", unreadCount |-> 1]}

\* C7: an event handled for one session leaves the rows of every other
\* session as they were.
C7_SessionsIsolated ==
  lastEv.kind # "none"
    => OfOtherSessions(chats, lastEv.sessionId)
         = OfOtherSessions(pre.chats, lastEv.sessionId)

-----------------------------------------------------------------------------
\* ---- claims about the message handlers (SpecReaction, SpecMessage)

\* the author of a reaction as the claim reads it: me for my own, else the
\* participant of a group, else the other side of the chat
AuthorOf(reaction) ==
  IF reaction.key.fromMe THEN "me"
  ELSE IF Has(reaction.key, "participant") THEN reaction.key.participant
  ELSE reaction.key.remoteJid

FromAuthor(reactions, a) == SelectSeq(reactions, LAMBDA r : AuthorOf(r) = a)
FromOthers(reactions, a) == SelectSeq(reactions, LAMBDA r : AuthorOf(r) # a)

\* the last event was one reaction, written without a storage failure
OneReaction ==
  /\ lastEv.kind = "messages.reaction"
  /\ Len(lastEv.payload) = 1
  /\ lastEv.fails = {}

\* C4: after a reaction event for a stored message, the stored reactions hold
\* exactly the new reaction from its author when its text is not empty and
\* none from that author when it is empty, and the reactions of every other
\* author are the ones stored before.
C4_ReactionReplacesByAuthor ==
  OneReaction
    => LET where == MessageWhere(lastEv.sessionId, lastEv.payload[1].key)
           new == lastEv.payload[1].reaction
       IN  \A p \in ByWhere(pre.messages, where) :
             \E q \in messages :
               /\ ByWhere(messages, where) = {q}
               /\ Has(q, "reactions")
               /\ FromAuthor(q.reactions, AuthorOf(new))
                    = (IF new.text # "" THEN <<new>> ELSE <<>>)
               /\ FromOthers(q.reactions, AuthorOf(new))
                    = FromOthers(Stored(p, "reactions"), AuthorOf(new))

\* a message that held my "+" and a participant's "+" received my "-": it
\* holds the participant's "+" and my "-"
C4_Witness ==
  /\ OneReaction
  /\ lastEv.payload[1].reaction.text = "-"
  /\ \E p \in ByWhere(pre.messages, MessageWhere(lastEv.sessionId, lastEv.payload[1].key)) :
       /\ Len(Stored(p, "reactions")) >= 2
       /\ FromAuthor(Stored(p, "reactions"), "me") # <<>>
       /\ FromOthers(Stored(p, "reactions"), "me") # <<>>
  /\ \E q \in ByWhere(messages, MessageWhere(lastEv.sessionId, lastEv.payload[1].key)) :
       FromAuthor(q.reactions, "me") = <<lastEv.payload[1].reaction>>

\* C6: whatever storage error occurs, the handler of an event catches it and
\* completes; its promise never rejects.
C6_HandlersNeverReject == ~rejected

-----------------------------------------------------------------------------
\* ---- claims about the history-set of messages (SpecHistory)

\* the batch a claim expects message i of a history of n messages to be in
BatchOf(i, n) == ((i - 1) \div getBatchConfig(n).BATCH_SIZE) + 1

\* the last event was a history-set of several batches of which one failed
OneBatchFailed ==
  /\ lastEv.kind = "messaging-history.set"
  /\ Len(lastEv.payload) > getBatchConfig(Len(lastEv.payload)).BATCH_SIZE
  /\ Cardinality(lastEv.fails) = 1

\* C11: after a history-set of several batches of which exactly one failed,
\* every message of every other batch is stored and the messages of the
\* failed batch are not.
C11_BatchIsolation ==
  OneBatchFailed
    => \A i \in DOMAIN lastEv.payload :
         (ByWhere(messages, MessageWhere(lastEv.sessionId, lastEv.payload[i].key)) # {})
           <=> (BatchOf(i, Len(lastEv.payload)) \notin lastEv.fails)

-----------------------------------------------------------------------------
\* ---- claims about messages.upsert and the chats it announces (SpecMessage)

\* the last event was a messages.upsert of one message that was stored
OneMessageStored ==
  /\ lastEv.kind = "messages.upsert"
  /\ Len(lastEv.payload.messages) = 1
  /\ lastEv.fails = {}

\* the conversation of the message of the last event
ConversationOf(message) == jidNormalizedUser(message.key.remoteJid)

\* the conversation had a Chat row in the session when the event arrived
HadChat ==
  \E r \in pre.chats :
    r.sessionId = lastEv.sessionId /\ r.id = ConversationOf(lastEv.payload.messages[1])

\* the chat-upsert events for the conversation that are pending now and were
\* not pending before
NewlyEmitted ==
  {e \in emitted \ pre.emitted :
     /\ e.sessionId = lastEv.sessionId
     /\ \E i \in DOMAIN e.chats : e.chats[i].id = ConversationOf(lastEv.payload.messages[1])}

\* C12 as stated: a stored message of either type whose conversation has no
\* Chat row makes the handler emit a chat-upsert for the conversation, and a
\* conversation with a Chat row makes it emit none.
C12_EmitsForEveryType ==
  OneMessageStored
    => /\ (~HadChat /\ pre.emitted = {}) => NewlyEmitted # {}
       /\ HadChat => emitted = pre.emitted

\* C12 amended: the handler emits the chat-upsert (the conversation's id,
\* the message's timestamp, unreadCount 1) exactly when the type is 'notify'
\* and the conversation has no Chat row; for 'append', or when the Chat row
\* exists, it emits nothing.
C12_EmitsOnNotifyOnly ==
  OneMessageStored
    => LET message == lastEv.payload.messages[1]
           e == [sessionId |-> lastEv.sessionId,
                 chats |-> <<[id |-> ConversationOf(message),
                              conversationTimestamp |->
                                IF Has(message, "messageTimestamp")
                                THEN message.messageTimestamp ELSE 0,
                              unreadCount |-> 1]>>]
       IN  IF lastEv.payload.type = "notify" /\ ~HadChat
           THEN emitted = pre.emitted \cup {e}
           ELSE emitted = pre.emitted

\* a 'notify' message of a conversation without Chat row was stored and the
\* chat-upsert is pending
C12_Witness ==
  /\ OneMessageStored
  /\ lastEv.payload.type = "notify"
  /\ ~HadChat
  /\ NewlyEmitted # {}

\* ---- concurrent upserts of one chat
BothSettled == \A i \in TaskIds : tasks[i].pc = "done"

\* the row the call of task i alone would leave
RowOf(i) == Spread(tasks[i].data, [sessionId |-> RaceSession])

\* C13: when two concurrent upserts of the same (sessionId, id) chat have
\* settled, they have not both failed, none of them is left failed by the
\* unique-constraint violation (it was retried as an update), and exactly one
\* row exists, holding the content of one of the two.
C13_ConcurrentUpsertsResolve ==
  BothSettled =>
    /\ \E i \in TaskIds : tasks[i].result = "fulfilled"
    /\ \A i \in TaskIds : tasks[i].result # "P2002"
    /\ Cardinality(ByWhere(chats, RaceWhere)) = 1
    /\ \E i \in TaskIds : ByWhere(chats, RaceWhere) = {RowOf(i)}

\* ---- concurrent reactions and receipts of one message
\* the author (reaction) or the user (receipt) of an entry
EntryAuthor(h, entry) ==
  IF h = "updateReaction" THEN getKeyAuthor(entry.key) ELSE entry.userJid

\* the array of column `column` stored for message m1 of the session
StoredArray(column) ==
  LET message == ByWhere(messages, MessageWhere(RaceSession, RaceKey))
  IN  IF message = {} THEN <<>> ELSE Stored(CHOOSE r \in message : TRUE, column)

\* both transactions found the message, rewrote the same column, and their
\* entries come from different authors
TwoAuthorsSettled ==
  /\ BothSettled
  /\ \A i \in TaskIds : tasks[i].found
  /\ tasks[1].handler = tasks[2].handler
  /\ tasks[1].handler \in {"updateReaction", "updateReceipt"}
  /\ EntryAuthor(tasks[1].handler, tasks[1].data)
       # EntryAuthor(tasks[2].handler, tasks[2].data)

\* C14: when two reaction (or receipt) events from different authors for the
\* same stored message have been handled concurrently, the stored array
\* holds the entries of both authors (no lost update).
C14_NoLostUpdate ==
  TwoAuthorsSettled =>
    \A i \in TaskIds :
      \E k \in DOMAIN StoredArray(ColumnOf(tasks[i].handler)) :
        StoredArray(ColumnOf(tasks[i].handler))[k] = tasks[i].data

\* ---- idempotent resolution
\* C16 as claimed: resolve(resolve(a)) = resolve(a) for every address and
\* every lookup, chained lookups included.
C16_ResolveIdempotent ==
  tasks.twice # "none" => tasks.twice = tasks.once

\* C16 amended: resolve(resolve(a)) = resolve(a) for every address a and every
\* lookup that has no entry for resolve(a), which covers no lookup and a
\* lookup that maps aliases to canonical addresses only.
C16_ResolveIdempotentUnlessRemapped ==
  (tasks.twice # "none" /\ JidByLid(tasks.lookup, tasks.once) = "undefined")
    => tasks.twice = tasks.once

C16_Witness ==
  /\ tasks.twice = UserJid
  /\ tasks.once = UserJid
  /\ tasks.id = LidJid
  /\ tasks.lookup = "device"
  /\ tasks.hint = NoHint

\* ---- stored chat ids
ChatIdFields == <<"pnJid", "senderPn", "jid">>

\* record c of an event carries nothing that leads from its alias to a
\* canonical address: no alternate address, and no answer of the lookup (or
\* an answer that is itself an alias)
Unresolvable(lookup, c) ==
  /\ EndsWithLid(IdOf(c))
  /\ FirstOf(c, ChatIdFields) = "undefined"
  /\ \/ JidByLid(lookup, c.id) = "undefined"
     \/ EndsWithLid(JidByLid(lookup, c.id))

\* the rows of the session whose id was not stored before the last event
NewChatRows ==
  {r \in chats : r.sessionId = lastEv.sessionId
                 /\ ByKey(pre.chats, r.sessionId, r.id) = {}}

ChatKey(r) == [sessionId |-> r.sessionId, id |-> r.id]
MessageKey(r) == [sessionId |-> r.sessionId, remoteJid |-> r.remoteJid, id |-> r.id]

\* the keys stored before the last event and not after it
RemovedChats == {ChatKey(r) : r \in pre.chats} \ {ChatKey(r) : r \in chats}
RemovedContacts == {ChatKey(r) : r \in pre.contacts} \ {ChatKey(r) : r \in contacts}
RemovedMessages == {MessageKey(r) : r \in pre.messages} \ {MessageKey(r) : r \in messages}

ChatRemovalAllowed ==
  RemovedChats # {} =>
    \/ lastEv.kind = "chats.delete"
    \/ lastEv.kind = "messaging-history.set" /\ lastEv.isLatest

\* C17 as claimed: no event removes a Contact or Message row, and a Chat row
\* is removed only by a chat-delete or by a history-set with isLatest.
C17_RowsRemovedOnlyByDelete ==
  lastEv.kind # "none" =>
    /\ RemovedContacts = {}
    /\ RemovedMessages = {}
    /\ ChatRemovalAllowed

\* C17 amended: no event removes a Message row; a Chat row is removed only by
\* a chat-delete or by a history-set with isLatest; a Contact row is removed
\* only by a history-set, which deletes the session's contacts the event does
\* not list.  (A contacts.update removes no row either, but it can move the
\* row it patches to another id.)
C17_RowsRemovedByDeleteOrHistory ==
  lastEv.kind # "none" =>
    /\ RemovedMessages = {}
    /\ ChatRemovalAllowed
    /\ Cardinality(contacts) < Cardinality(pre.contacts)
         => lastEv.kind = "messaging-history.set"
    /\ RemovedContacts # {} =>
         \/ /\ lastEv.kind = "messaging-history.set"
            /\ \A k \in RemovedContacts :
                 \A i \in DOMAIN lastEv.payload.contacts :
                   normalizedContacts(StoreLookup, lastEv.payload.contacts)[i].id # k.id
         \/ /\ lastEv.kind = "contacts.update"
            /\ Cardinality(contacts) = Cardinality(pre.contacts)

\* a history-set that is not the latest removed a contact and kept the chats
C17_Witness ==
  /\ lastEv.kind = "messaging-history.set"
  /\ ~lastEv.isLatest
  /\ RemovedContacts # {}
  /\ pre.chats # {}
  /\ RemovedChats = {}
  /\ pre.messages # {}

\* ---- updates for identities not stored yet
\* record i is the first of the event's records stored under identity `id`
FirstFor(ids, i) == \A j \in 1..(i - 1) : ids[j] # ids[i]

\* table t holds exactly one row of the session under `id`, and the row holds
\* every field of `patch` among `fields`, with the value of the patch
OneRowWith(t, s, id, patch, fields) ==
  /\ Cardinality(ByKey(t, s, id)) = 1
  /\ \A r \in ByKey(t, s, id) :
       \A f \in (DOMAIN patch \cap fields) \ {"id"} : Has(r, f) /\ r[f] = patch[f]

\* the identities the records of a chats.update are stored under
ChatUpdateIds == [i \in DOMAIN lastEv.payload |-> IdOf(lastEv.payload[i])]

\* the identities the records of a contacts.update are stored under
ContactUpdateIds ==
  [i \in DOMAIN lastEv.payload |->
     resolveContactId(StoreLookup, IdOf(lastEv.payload[i]), lastEv.payload[i])]

\* C18: after a chat-update or contact-update, every identity of the event
\* that had no row has exactly one row, which holds the fields of the patch
\* (for a chat every field, unreadCount as it arrived; for a contact the
\* fields of the Contact model).
C18_UpdateCreatesMissingRow ==
  /\ lastEv.kind = "chats.update" =>
       \A i \in DOMAIN lastEv.payload :
         (/\ Has(lastEv.payload[i], "id")
          /\ FirstFor(ChatUpdateIds, i)
          /\ ByKey(pre.chats, lastEv.sessionId, ChatUpdateIds[i]) = {})
         => OneRowWith(chats, lastEv.sessionId, ChatUpdateIds[i],
                       lastEv.payload[i], DOMAIN lastEv.payload[i])
  /\ lastEv.kind = "contacts.update" =>
       \A i \in DOMAIN lastEv.payload :
         (/\ Has(lastEv.payload[i], "id")
          /\ FirstFor(ContactUpdateIds, i)
          /\ ByKey(pre.contacts, lastEv.sessionId, ContactUpdateIds[i]) = {})
         => OneRowWith(contacts, lastEv.sessionId, ContactUpdateIds[i],
                       lastEv.payload[i], ContactFields)

\* a contacts.update for an alias whose user had no row created the row
C18_Witness ==
  /\ lastEv.kind = "contacts.update"
  /\ lastEv.payload = <<[id |-> LidJid, senderPn |-> DeviceJid, notify |-> "n"]>>
  /\ ByKey(pre.contacts, StoreSession, UserJid) = {}
  /\ ByKey(contacts, StoreSession, UserJid)
       = {[id |-> UserJid, sessionId |-> StoreSession, notify |-> "n"]}

\* ---- updates, receipts and reactions for messages that are not stored
TargetKinds == {"messages.update", "message-receipt.update", "messages.reaction"}

\* the stored rows record i of the last event is addressed to, before and after
TargetBefore(i) ==
  ByWhere(pre.messages, MessageWhere(lastEv.sessionId, lastEv.payload[i].key))
TargetAfter(i) ==
  ByWhere(messages, MessageWhere(lastEv.sessionId, lastEv.payload[i].key))

\* record i of the last event has taken effect on row r
Applied(i, r) ==
  IF lastEv.kind = "messages.update"
  THEN \A f \in DOMAIN lastEv.payload[i].update :
         Has(r, f) /\ r[f] = lastEv.payload[i].update[f]
  ELSE IF lastEv.kind = "message-receipt.update"
  THEN \E k \in DOMAIN Stored(r, "userReceipt") :
         r.userReceipt[k] = lastEv.payload[i].receipt
  ELSE \E k \in DOMAIN Stored(r, "reactions") :
         r.reactions[k] = lastEv.payload[i].reaction

\* C19: a message-update, receipt or reaction whose target message is not
\* stored is skipped: no row is created, no other row is modified, nothing is
\* logged as an error and the handler does not reject; the records of the
\* same event whose target is stored still take effect.
C19_MissingTargetSkipped ==
  lastEv.kind \in TargetKinds =>
    /\ logged = <<>>
    /\ ~rejected
    /\ {MessageKey(r) : r \in messages} = {MessageKey(r) : r \in pre.messages}
    /\ \A i \in DOMAIN lastEv.payload : TargetBefore(i) = {} => TargetAfter(i) = {}
    /\ (\A i \in DOMAIN lastEv.payload : TargetBefore(i) = {}) => messages = pre.messages
    /\ \A i \in DOMAIN lastEv.payload :
         TargetBefore(i) # {} => \A r \in TargetAfter(i) : Applied(i, r)

\* a reaction to the missing m2 was skipped and the one to m1, next in the
\* same event, was stored
C19_Witness ==
  /\ lastEv.kind = "messages.reaction"
  /\ TargetBefore(1) = {}
  /\ TargetAfter(1) = {}
  /\ TargetBefore(2) # {}
  /\ \A r \in TargetBefore(2) : ~Has(r, "reactions")
  /\ \A r \in TargetAfter(2) : Applied(2, r)
  /\ logged = <<>>

\* ---- records with no id
\* the chat records and the contact records of the last event
ChatRecords ==
  IF lastEv.kind = "messaging-history.set" THEN lastEv.payload.chats
  ELSE IF lastEv.kind \in {"chats.upsert", "chats.update"} THEN lastEv.payload
  ELSE <<>>
ContactRecords ==
  IF lastEv.kind = "messaging-history.set" THEN lastEv.payload.contacts
  ELSE IF lastEv.kind \in {"contacts.upsert", "contacts.update"} THEN lastEv.payload
  ELSE <<>>

WithId(records) == SelectSeq(records, LAMBDA c : Has(c, "id"))

\* the ids under which table t holds rows of the session
IdsIn(t, s) == {r.id : r \in {q \in t : q.sessionId = s}}

\* C20: when an event carries a record with no id, that record causes no
\* write and the event does not fail: nothing is logged as an error, every
\* record of the event that has an id is stored, and no row appears under an
\* id that none of those records has.
C20_NoIdRecordSkipped ==
  (/\ lastEv.kind # "none"
   /\ \/ \E i \in DOMAIN ChatRecords : ~Has(ChatRecords[i], "id")
      \/ \E i \in DOMAIN ContactRecords : ~Has(ContactRecords[i], "id"))
  => /\ logged = <<>>
     /\ \A i \in DOMAIN WithId(ChatRecords) :
          ByKey(chats, lastEv.sessionId, WithId(ChatRecords)[i].id) # {}
     /\ \A i \in DOMAIN WithId(ContactRecords) :
          ByKey(contacts, lastEv.sessionId,
                resolveContactId(StoreLookup, WithId(ContactRecords)[i].id,
                                 WithId(ContactRecords)[i])) # {}
     /\ IdsIn(chats, lastEv.sessionId) \ IdsIn(pre.chats, lastEv.sessionId)
          \subseteq {WithId(ChatRecords)[i].id : i \in DOMAIN WithId(ChatRecords)}
     /\ IdsIn(contacts, lastEv.sessionId) \ IdsIn(pre.contacts, lastEv.sessionId)
          \subseteq {resolveContactId(StoreLookup, WithId(ContactRecords)[i].id,
                                      WithId(ContactRecords)[i]) :
                       i \in DOMAIN WithId(ContactRecords)}

\* the records of an event whose write did not fail, in their order
RECURSIVE RecordsFrom(_, _, _)
RecordsFrom(records, fails, k) ==
  IF k > Len(records) THEN <<>>
  ELSE (IF k \in fails THEN <<>> ELSE <<records[k]>>) \o RecordsFrom(records, fails, k + 1)

IncrementalKinds ==
  {"chats.update", "contacts.update", "messages.upsert", "messages.update",
   "message-receipt.update", "messages.reaction"}

\* the tables that handling event ev leaves when it starts from tables t and
\* consists of the records `records` only, none of whose writes fails
HandledWithout(ev, t, records) ==
  LET s == ev.sessionId
      n == Len(records)
  IN  CASE ev.kind = "chats.update" ->
             [t EXCEPT !.chats = chatUpdate(t.chats, s, records, {}).table]
        [] ev.kind = "contacts.update" ->
             [t EXCEPT !.contacts =
                contactUpdate(StoreLookup, t.contacts, s, records, {}).table]
        [] ev.kind = "messages.upsert" ->
             LET r == messageUpsert(Stores(t.messages, t.chats, t.emitted), s, records,
                                    ev.payload.type, AllOk(n), {})
             IN  [t EXCEPT !.messages = r.table, !.chats = r.chats, !.emitted = r.emitted]
        [] ev.kind = "messages.update" ->
             [t EXCEPT !.messages = messageUpdate(t.messages, s, records, AllOk(n)).table]
        [] ev.kind = "message-receipt.update" ->
             [t EXCEPT !.messages = updateReceipt(t.messages, s, records, AllOk(n)).table]
        [] ev.kind = "messages.reaction" ->
             [t EXCEPT !.messages = updateReaction(t.messages, s, records, AllOk(n)).table]

RecordsOf(ev) == IF ev.kind = "messages.upsert" THEN ev.payload.messages ELSE ev.payload

\* C21: when the writes of some records of a chat-update, contact-update,
\* message-upsert, message-update, receipt or reaction event fail, the
\* tables end as if the event had held the other records only, each of them
\* processed and stored; one error is logged per failed record and the
\* handler does not reject.
C21_RecordFailuresIsolated ==
  lastEv.kind \in IncrementalKinds =>
    /\ Tables = HandledWithout(lastEv, pre, RecordsFrom(RecordsOf(lastEv), lastEv.fails, 1))
    /\ Len(logged) = Cardinality(lastEv.fails)
    /\ ~rejected

\* C21 witness: the write of the first message update of an event failed and
\* the second update of the event is stored on its message
C21_Witness ==
  /\ lastEv.kind = "messages.update"
  /\ lastEv.fails = {1}
  /\ \E r \in messages : r.id = "m2" /\ Has(r, "status") /\ r.status = 3
  /\ \A r \in pre.messages : ~Has(r, "status")

\* the records of a contact event without their fields outside the allowlist
OnlyContactFields(records) ==
  [i \in DOMAIN records |-> [f \in DOMAIN records[i] \cap ContactFields |-> records[i][f]]]

\* what the contact handler logs for event ev when it starts from table t and
\* handles the records `records`
ContactLog(ev, t, records) ==
  CASE ev.kind = "messaging-history.set" ->
         contactSet(StoreLookup, t, ev.sessionId, records, {}).logged
    [] ev.kind = "contacts.upsert" ->
         contactUpsert(StoreLookup, t, ev.sessionId, records, {}).logged
    [] ev.kind = "contacts.update" ->
         contactUpdate(StoreLookup, t, ev.sessionId, records, {}).logged

\* C22: a Contact row holds no field but id, name, notify, verifiedName,
\* imgUrl, status and sessionId, whatever fields the records of history-set,
\* contact-upsert and contact-update carried; and the fields outside that
\* list never make a write fail: an event whose records would be written
\* without error if they carried the listed fields only is written without
\* error.
C22_OnlyAllowlistWritten ==
  lastEv.kind \in {"messaging-history.set", "contacts.upsert", "contacts.update"} =>
    /\ \A r \in contacts : DOMAIN r \subseteq ContactFields \cup {"sessionId"}
    /\ ContactLog(lastEv, pre.contacts, OnlyContactFields(ContactRecords)) = <<>>
         => logged = <<>>

\* the value keys.get returns for one id of a category when no read fails
GetOne(rows, s, category, id) == keysGet(rows, s, category, {id}, {})[id]

\* a value that JSON.stringify turns into a text that JSON.parse accepts
Serializable(value) ==
  /\ ~JSONStringify(value).threw
  /\ ~JSONParse(JSONStringify(value).text).threw

\* the entries of the last keys.set whose write or delete did not fail
Settled(i) ==
  /\ i \notin lastKeys.fails
  /\ Serializable(lastKeys.data[i].value)

InMap(category, id) ==
  \E i \in DOMAIN lastKeys.data :
    lastKeys.data[i].category = category /\ lastKeys.data[i].id = id

\* C23: after keys.set(categoryMap), keys.get returns for every (category,
\* id) of the map the written value if it was truthy and null if it was
\* falsy, for every entry whose own write or delete did not fail; and every
\* (category, id) that is not in the map reads as it did before: no two
\* distinct ids share a row.
C23_KeysRoundTrip ==
  lastKeys.op = "set" =>
    /\ \A i \in DOMAIN lastKeys.data :
         Settled(i) =>
           GetOne(sessionRows, lastKeys.sessionId, lastKeys.data[i].category,
                  lastKeys.data[i].id)
             = IF Truthy(lastKeys.data[i].value) THEN lastKeys.data[i].value ELSE KeyNull
    /\ \A category \in KeyCategories, id \in KeyIds :
         ~InMap(category, id) =>
           GetOne(sessionRows, lastKeys.sessionId, category, id)
             = GetOne(lastKeys.before, lastKeys.sessionId, category, id)

\* the lines that tell of a text that could not be parsed back
SkippedWrites(log) ==
  SelectSeq(log, LAMBDA l : l = "Cannot serialize session data properly. Skipping write.")

\* the entries of the last keys.set whose text cannot be parsed back
Unparseable(i) ==
  /\ Truthy(lastKeys.data[i].value)
  /\ ~JSONStringify(lastKeys.data[i].value).threw
  /\ JSONParse(JSONStringify(lastKeys.data[i].value).text).threw

RowFor(rows, s, category, id) == ByWhere(rows, SessionWhere(s, KeyId(category, id)))

\* C24: no call of keys.set, keys.get or saveCreds throws, whatever storage
\* error its writes, reads and deletes meet and whether or not the deleted
\* id exists; table Session never holds two rows with the same (sessionId,
\* id); and a write whose text cannot be parsed back leaves the row of its id
\* as it was (absent or unmodified) and is logged once, the write being
\* attempted once only.
C24_SessionFailsSoft ==
  /\ \A r, q \in sessionRows : (r.sessionId = q.sessionId /\ r.id = q.id) => r = q
  /\ lastKeys.op # "none" => ~lastKeys.threw
  /\ lastKeys.op = "set" =>
       /\ \A i \in DOMAIN lastKeys.data :
            Unparseable(i) =>
              RowFor(sessionRows, lastKeys.sessionId, lastKeys.data[i].category,
                     lastKeys.data[i].id)
                = RowFor(lastKeys.before, lastKeys.sessionId, lastKeys.data[i].category,
                         lastKeys.data[i].id)
       /\ Len(SkippedWrites(lastKeys.logged))
            = Cardinality({i \in DOMAIN lastKeys.data : Unparseable(i)})

\* C24 witness: keys.set was called with a value whose text cannot be parsed
\* back, for an id that has a row
C24_Witness ==
  /\ lastKeys.op = "set"
  /\ Unparseable(1)
  /\ RowFor(lastKeys.before, lastKeys.sessionId, lastKeys.data[1].category,
            lastKeys.data[1].id) # {}

\* no function and no symbol at any depth of value v
RECURSIVE NoCallable(_)
NoCallable(v) ==
  /\ v.t \notin {"function", "symbol"}
  /\ v.t = "array" => \A i \in DOMAIN v.e : NoCallable(v.e[i])
  /\ v.t = "object" => \A k \in DOMAIN v.f : NoCallable(v.f[k])

\* the strings and numbers of value v, each with the path that leads to it:
\* the keys of the objects and, in an array, the position among the items
\* that are neither function nor symbol
RECURSIVE Primitives(_, _)
Primitives(v, path) ==
  IF v.t \in {"string", "number"} THEN {<<path, v>>}
  ELSE IF v.t = "object"
  THEN UNION {Primitives(v.f[k], Append(path, k)) : k \in DOMAIN v.f}
  ELSE IF v.t = "array"
  THEN LET items == SelectSeq(v.e, LAMBDA x : x.t \notin {"function", "symbol"})
       IN  UNION {Primitives(items[i], Append(path, i)) : i \in DOMAIN items}
  ELSE {}

\* C25: the record the sanitizer pipeline produces (transformPrisma, then
\* validateMessageData for a message) holds no function and no symbol at any
\* depth, the top level included, and every string and number of the input
\* is in the output, unchanged and under the same path.
C25_NoCallableSurvives ==
  (tasks.done /\ tasks.pipeline \in Pipelines) =>
    /\ NoCallable(tasks.output)
    /\ Primitives(tasks.record, <<>>) \subseteq Primitives(tasks.output, <<>>)

\* the keys of the record given to the validator, those among them whose
\* value is a data value, and the keys of the record it returned
InputKeys == DOMAIN tasks.record.f
DataKeys ==
  {k \in InputKeys : tasks.record.f[k].t \notin {"undefined", "function", "symbol"}}
OutputKeys == DOMAIN tasks.output.f

SessionChats(t, s) == {r \in t : r.sessionId = s}

\* the rows the event's chats are stored as: resolved id, transformed fields
IncomingChatRows ==
  LET cs == normalizedChats(lastEv.payload.getJid, lastEv.payload.chats)
  IN  {Spread(cs[i], [sessionId |-> lastEv.sessionId]) : i \in DOMAIN cs}

\* C27: after a chat history-set with isLatest = true that completes without
\* an error, the session's Chat rows are exactly the incoming chats, one row
\* per resolved id, and no earlier row survives unless it was sent again; with
\* isLatest = false no existing Chat row is removed.
C27_HistorySetReplaces ==
  (lastEv.kind = "messaging-history.set" /\ logged = <<>>) =>
    /\ lastEv.isLatest =>
         /\ SessionChats(chats, lastEv.sessionId) = IncomingChatRows
         /\ Cardinality(IncomingChatRows) = Len(lastEv.payload.chats)
         /\ \A r \in pre.chats :
              r \in chats => r.sessionId # lastEv.sessionId \/ r \in IncomingChatRows
    /\ ~lastEv.isLatest => pre.chats \subseteq chats

\* a latest history-set replaced a stored chat that it did not send again
C27_Witness ==
  /\ lastEv.kind = "messaging-history.set"
  /\ lastEv.isLatest
  /\ logged = <<>>
  /\ lastEv.payload.getJid = "known"
  /\ lastEv.payload.chats = <<C(LidJid)>>
  /\ \E r \in pre.chats : r.id = DeviceJid \/ r.id = LidDeviceJid \/ r.id = LidJid
  /\ chats = {[id |-> UserJid, sessionId |-> RaceSession]}

\* ---- a transaction that exceeded its timeout
\* the call ended by rethrowing a timeout although attempts were left
TimeoutGivenUp ==
  /\ rpc = "thrown"
  /\ lastError.error = Timeout
  /\ HasAttemptsLeft(lastError.at, maxRetries)

\* C28: an operation that fails because its transaction exceeded its timeout
\* is classified as transient and retried with backoff, like a deadlock or a
\* conflict code, until it succeeds or maxRetries attempts are used up: the
\* call never ends on a timeout while attempts are left, and every timeout
\* observed before the last attempt is followed by a backoff delay.
C28_TimeoutRetried ==
  /\ ~TimeoutGivenUp
  /\ \A i \in DOMAIN observed :
       (observed[i].error = Timeout /\ HasAttemptsLeft(observed[i].at, maxRetries)
          /\ rpc # "try")
         => i \in DOMAIN delays

\* ---- a history chunk racing an incremental upsert
BulkSettled ==
  /\ \A i \in TaskIds : tasks[i].pc = "done"
  /\ \A i \in TaskIds : Has(tasks[i], "entity")

\* the call whose write committed last
LastWriter == CHOOSE i \in TaskIds : \A j \in TaskIds : tasks[j].committed <= tasks[i].committed

\* C29: when a history-set and an incremental upsert for the same chat or
\* message were handled concurrently, neither was rejected with a constraint
\* error, exactly one row exists for the key, and the row holds the content
\* of the write that committed last.
C29_BulkRaceLastWriterWins ==
  BulkSettled =>
    LET e == tasks[1].entity
        stored == ByWhere(BulkTable(e), BulkWhere(e))
    IN  /\ \A i \in TaskIds : tasks[i].result # "P2002"
        /\ Cardinality(stored) = 1
        /\ \A r \in stored :
             \A f \in DOMAIN tasks[LastWriter].data : r[f] = tasks[LastWriter].data[f]

\* ---- updates of one record in arrival order
\* the updates of the calls in the order of their arrival
Arrived(i) == IF tasks[i].pc = "idle" THEN <<>> ELSE tasks[i].data
InArrivalOrder == Arrived(1) \o Arrived(2)

UpdatesSettled ==
  /\ tasks[1].pc = "done"
  /\ tasks[1].handler = "update"
  /\ tasks[2].pc \in {"idle", "done"}

\* the table after the updates applied one after the other in arrival order
\* to the table the first event met
AppliedInOrder ==
  IF tasks[1].entity = "chat"
  THEN chatUpdate(pre.chats, RaceSession, InArrivalOrder, {}).table
  ELSE messageUpdate(pre.messages, RaceSession, InArrivalOrder,
                     AllOk(Len(InArrivalOrder))).table

\* C30: updates to one record are applied in arrival order, whether they
\* arrive in one event or in two successive events emitted without waiting
\* for the first handler: the stored state is that of applying them one
\* after the other in that order.
C30_UpdatesInArrivalOrder ==
  UpdatesSettled =>
    (IF tasks[1].entity = "chat" THEN chats ELSE messages) = AppliedInOrder

-----------------------------------------------------------------------------
\* ---- claims about the batches of a message history-set (SpecBatches)

\* the batches whose transaction is in flight
InFlight == {b \in DOMAIN tasks.tx : tasks.tx[b] \in InFlightSteps}

\* the Promise.all group of batch b
GroupOf(b) == (b - 1) \div tasks.config.MAX_CONCURRENT_BATCHES

\* C31: during a message history-set the number of batch transactions in
\* flight is at most MAX_CONCURRENT_BATCHES of the selected tier, and a batch
\* of a later group is started only after every batch of the previous groups
\* has finished.
C31_BoundedConcurrency ==
  tasks.pc # "idle" =>
    /\ Cardinality(InFlight) <= getBatchConfig(tasks.count).MAX_CONCURRENT_BATCHES
    /\ \A a, b \in DOMAIN tasks.tx :
         (GroupOf(a) < GroupOf(b) /\ tasks.tx[b] # "pending")
           => tasks.tx[a] \in {"committed", "failed"}

\* a full group is in flight while batches of a later group wait
C31_Witness ==
  /\ tasks.pc = "running"
  /\ tasks.count = 1001
  /\ Cardinality(InFlight) = 3
  /\ tasks.i > 1
  /\ \E b \in DOMAIN tasks.tx : tasks.tx[b] = "pending"

\* ---- atomic batches
\* the messages of the call and those whose batch has committed
CallMessages == StatusHistory(tasks.count)
Committed ==
  {i \in DOMAIN CallMessages : tasks.tx[BatchOf(i, tasks.count)] = "committed"}
FailedBatches == {b \in DOMAIN tasks.tx : tasks.tx[b] = "failed"}

\* the row message m is stored as by its batch: created, or the row the
\* session held before the event updated with the incoming fields
RowAfter(m) ==
  LET where == MessageWhere(BatchSession, m.key)
      data == validateMessageData(transformPrisma(m))
      old == ByWhere(pre.messages, where)
  IN  IF old = {} THEN validateMessageData(Spread(transformPrisma(m), where))
      ELSE UpdatedRow(CHOOSE r \in old : TRUE, AsUpdate(data))

\* what is visible of the call: the writes of the committed batches, all of
\* them, and nothing of a batch that failed or has not committed yet
OnlyCommittedVisible ==
  LET ids == {CallMessages[i].key.id : i \in Committed}
  IN  messages = {RowAfter(CallMessages[i]) : i \in Committed}
                   \cup {r \in pre.messages : r.id \notin ids}

\* each failed batch logged its error, and the handler logged and rejected
FailuresReported ==
  /\ Len(SelectSeq(logged, LAMBDA l : l = "Error processing message batch"))
       = Cardinality(FailedBatches)
  /\ FailedBatches # {} =>
       /\ rejected
       /\ tasks.pc = "thrown"
       /\ Len(SelectSeq(logged, LAMBDA l : l = "An error occured during messages set")) = 1

\* a failure of one batch leaves the transactions of the others as they are
OthersGoOn ==
  \A b \in DOMAIN tasks.tx :
    (tasks.tx[b] # "failed" /\ tasks'.pc # "idle" /\ tasks'.tx[b] = "failed")
      => \A a \in DOMAIN tasks.tx \ {b} : tasks'.tx[a] = tasks.tx[a]

\* C32: each message batch is atomic.  When the transaction of a batch fails
\* at any statement, none of its creates or updates is visible, the failure
\* is logged and the handler rejects; the batches dispatched with it are not
\* cancelled and what they commit is stored.
C32_BatchAtomic ==
  /\ [](tasks.pc # "idle" => (OnlyCommittedVisible /\ FailuresReported))
  /\ [][tasks.pc # "idle" => OthersGoOn]_vars

\* of two batches dispatched together, the first failed in its update loop
\* and the second committed creates and updates
C32_Witness ==
  /\ tasks.pc = "thrown"
  /\ tasks.count = 60
  /\ pre.messages = EarlierRows
  /\ tasks.tx = <<"failed", "committed">>
  /\ tasks.failedAt[1] = "created"
  /\ Cardinality(messages) = 60
  /\ \E r \in messages : r.id = "1" /\ r.status = 1
  /\ \E r \in messages : r.id = "51" /\ r.status = 2

-----------------------------------------------------------------------------
\* ---- claims about getBatchConfig (SpecConfig)

\* both counts lie on the same side of each of the three thresholds
SameTier(n, m) == \A t \in {1000, 5000, 10000} : (n > t) <=> (m > t)

\* C33: getBatchConfig is monotone in the message count: for n <= m the batch
\* size and the concurrency of n are at least those of m and the timeout of n
\* is at most that of m; there are exactly four tiers, switching strictly
\* above 1000, 5000 and 10000; every tier has a batch size and a concurrency
\* of at least 1.
C33_BatchConfigMonotone ==
  tasks.done =>
    /\ tasks.n <= tasks.m =>
         /\ tasks.ofN.BATCH_SIZE >= tasks.ofM.BATCH_SIZE
         /\ tasks.ofN.MAX_CONCURRENT_BATCHES >= tasks.ofM.MAX_CONCURRENT_BATCHES
         /\ tasks.ofN.TIMEOUT <= tasks.ofM.TIMEOUT
    /\ (tasks.ofN = tasks.ofM) <=> SameTier(tasks.n, tasks.m)
    /\ tasks.ofN.BATCH_SIZE >= 1
    /\ tasks.ofN.MAX_CONCURRENT_BATCHES >= 1

\* a threshold itself is configured as the lower tier, the next count as the
\* higher one
C33_Witness ==
  /\ tasks.done
  /\ tasks.n = 5000
  /\ tasks.m = 5001
  /\ tasks.ofN.BATCH_SIZE = 25
  /\ tasks.ofM.BATCH_SIZE = 15

-----------------------------------------------------------------------------
\* ---- claims about what a bulk history-set stores (SpecChat)

\* row r holds every field of the incoming record as it is stored
HoldsIncoming(r, record) ==
  LET data == transformPrisma(record)
  IN  \A f \in DOMAIN data : Has(r, f) /\ r[f] = data[f]

\* C34: after a bulk history-set that completed without error, every incoming
\* record is stored with the incoming content, whether a row of its identity
\* existed before (then it is updated) or not (then it is inserted).
C34_BulkSetStoresIncoming ==
  (lastEv.kind = "messaging-history.set" /\ logged = <<>>) =>
    \A i \in DOMAIN lastEv.payload :
      LET c == lastEv.payload[i]
      IN  Has(c, "id") =>
            \E r \in ByKey(chats, lastEv.sessionId, c.id) : HoldsIncoming(r, c)

-----------------------------------------------------------------------------
\* ---- the precedence of address resolution (SpecResolve)

\* the alternate-address fields in the order the resolver reads them
AlternateFields(resolver) ==
  IF resolver = "resolveChatId" THEN <<"pnJid", "senderPn", "jid">>
  ELSE <<"senderPn", "pnJid", "jid">>

\* the alternate address of the hint record of the call, "undefined" if none
Alternate == FirstOf(tasks.hint, AlternateFields(tasks.resolver))

\* steps two and three: the answer of the lookup, else the address itself
LookupOrSelf ==
  IF JidByLid(tasks.lookup, tasks.id) # "undefined"
  THEN jidNormalizedUser(JidByLid(tasks.lookup, tasks.id))
  ELSE jidNormalizedUser(tasks.id)

\* C35 as claimed: the alternate address of the hint record comes first,
\* whatever the form of the original address, then the lookup, then the
\* address itself, each normalized.
C35_HintThenLookupThenSelf ==
  tasks.once # "none" =>
    tasks.once = IF Alternate # "undefined" THEN jidNormalizedUser(Alternate)
                 ELSE LookupOrSelf

\* C35 amended: the alternate address of the hint record comes first only
\* for an address in alias form (ending in @lid); for every other address, and
\* for an alias without alternate address, the result is the lookup's answer
\* normalized, else the address itself normalized.
C35_HintForAliasThenLookupThenSelf ==
  tasks.once # "none" =>
    tasks.once = IF EndsWithLid(tasks.id) /\ Alternate # "undefined"
                 THEN jidNormalizedUser(Alternate)
                 ELSE LookupOrSelf

\* an alias the lookup knows arrived with an alternate address, which won
C35_Witness ==
  /\ tasks.resolver = "resolveChatId"
  /\ tasks.id = LidJid
  /\ tasks.lookup = "known"
  /\ tasks.hint = [senderPn |-> DeviceJid, pnJid |-> ThirdJid]
  /\ tasks.once = ThirdJid

-----------------------------------------------------------------------------
\* ---- the collections of a message, one entry per key (SpecReaction)

FromUser(userReceipt, u) == SelectSeq(userReceipt, LAMBDA m : m.userJid = u)
FromOtherUsers(userReceipt, u) == SelectSeq(userReceipt, LAMBDA m : m.userJid # u)

\* no two entries of the array have the same key
OnePerKey(array, KeyOf(_)) ==
  \A i, j \in DOMAIN array : KeyOf(array[i]) = KeyOf(array[j]) => i = j

ReceiptUser(m) == m.userJid

\* the last event was one receipt, written without a storage failure
OneReceipt ==
  /\ lastEv.kind = "message-receipt.update"
  /\ Len(lastEv.payload) = 1
  /\ lastEv.fails = {}

\* C36: a message that was stored with empty collections holds at most one
\* receipt per userJid and at most one reaction per author; after a receipt
\* (a reaction) written without a storage failure the entry of its user (its
\* author) is the one just received, none for a reaction of empty text, and
\* the entries of every other key and the other collection are the ones
\* stored before.
C36_OneEntryPerKey ==
  /\ \A q \in messages :
       /\ OnePerKey(Stored(q, "userReceipt"), ReceiptUser)
       /\ OnePerKey(Stored(q, "reactions"), AuthorOf)
  /\ OneReceipt =>
       LET where == MessageWhere(lastEv.sessionId, lastEv.payload[1].key)
           new == lastEv.payload[1].receipt
       IN  \A p \in ByWhere(pre.messages, where) :
             \E q \in messages :
               /\ ByWhere(messages, where) = {q}
               /\ FromUser(Stored(q, "userReceipt"), new.userJid) = <<new>>
               /\ FromOtherUsers(Stored(q, "userReceipt"), new.userJid)
                    = FromOtherUsers(Stored(p, "userReceipt"), new.userJid)
               /\ Stored(q, "reactions") = Stored(p, "reactions")
  /\ OneReaction =>
       LET where == MessageWhere(lastEv.sessionId, lastEv.payload[1].key)
           new == lastEv.payload[1].reaction
       IN  \A p \in ByWhere(pre.messages, where) :
             \E q \in messages :
               /\ ByWhere(messages, where) = {q}
               /\ FromAuthor(Stored(q, "reactions"), AuthorOf(new))
                    = (IF new.text # "" THEN <<new>> ELSE <<>>)
               /\ FromOthers(Stored(q, "reactions"), AuthorOf(new))
                    = FromOthers(Stored(p, "reactions"), AuthorOf(new))
               /\ Stored(q, "userReceipt") = Stored(p, "userReceipt")

\* a message holding the receipts of u1 and u2 and the reactions of two
\* authors received a later receipt of u1, which replaced the earlier one
C36_Witness ==
  /\ OneReceipt
  /\ lastEv.payload[1].receipt = Receipt("u1", 2)
  /\ \E p \in ByWhere(pre.messages, MessageWhere(lastEv.sessionId, lastEv.payload[1].key)) :
       /\ FromUser(Stored(p, "userReceipt"), "u1") = <<Receipt("u1", 1)>>
       /\ FromUser(Stored(p, "userReceipt"), "u2") = <<Receipt("u2", 1)>>
       /\ Len(Stored(p, "reactions")) = 2
  /\ \E q \in ByWhere(messages, MessageWhere(lastEv.sessionId, lastEv.payload[1].key)) :
       /\ Len(q.userReceipt) = 2
       /\ FromUser(q.userReceipt, "u1") = <<Receipt("u1", 2)>>
       /\ Len(q.reactions) = 2

-----------------------------------------------------------------------------
\* ---- positive unreadCount deltas of two events (SpecOrder)

\* call i handled one chat update with a positive unreadCount and has ended
PositiveDelta(i) ==
  /\ tasks[i].pc = "done"
  /\ tasks[i].handler = "update"
  /\ tasks[i].entity = "chat"
  /\ Len(tasks[i].data) = 1
  /\ tasks[i].data[1].unreadCount > 0

\* the chat row stored when the first event arrived, with its unreadCount
CountedBefore == {p \in ByWhere(pre.chats, RaceWhere) : Has(p, "unreadCount")}

\* C37: when two chat-update events with positive unreadCount d1 and d2 for a
\* chat row stored with unreadCount n have both been handled, in any
\* interleaving of their reads and writes, the row's unreadCount is
\* n + d1 + d2.
C37_PositiveDeltasAdd ==
  (PositiveDelta(1) /\ PositiveDelta(2))
    => \A p \in CountedBefore :
         \E q \in chats :
           /\ ByWhere(chats, RaceWhere) = {q}
           /\ q.unreadCount
                = p.unreadCount + tasks[1].data[1].unreadCount + tasks[2].data[1].unreadCount

\* the row held 1, the events brought 1 and 2, and the row holds 4
C37_Witness ==
  /\ PositiveDelta(1) /\ PositiveDelta(2)
  /\ tasks[1].data[1].unreadCount = 1
  /\ tasks[2].data[1].unreadCount = 2
  /\ \E p \in CountedBefore : p.unreadCount = 1
  /\ \E q \in ByWhere(chats, RaceWhere) : q.unreadCount = 4

-----------------------------------------------------------------------------
\* ---- the chat history-set is all-or-nothing (SpecAlias)

\* the last event was a chat history-set whose transaction failed
HistorySetFailed ==
  /\ lastEv.kind = "messaging-history.set"
  /\ logged = <<"An error occured during chats set">>

\* C38: when the transaction of a chat history-set fails, the session's Chat
\* rows are exactly those stored before the event, also with isLatest = true,
\* where the transaction had deleted the session's chats before it failed.
C38_HistorySetAllOrNothing ==
  HistorySetFailed
    => SessionChats(chats, lastEv.sessionId) = SessionChats(pre.chats, lastEv.sessionId)

\* a latest history-set whose two chats resolved to one id failed at the
\* insert, after the delete, and the session's chats are still stored
C38_Witness ==
  /\ HistorySetFailed
  /\ lastEv.isLatest
  /\ lastEv.fails = {}
  /\ \E r1, r2 \in IncomingChatRows : r1 # r2 /\ r1.id = r2.id
  /\ SessionChats(pre.chats, lastEv.sessionId) # {}
  /\ SessionChats(chats, lastEv.sessionId) = SessionChats(pre.chats, lastEv.sessionId)

-----------------------------------------------------------------------------
\* ---- the handlers that wait with Promise.any (SpecContact)

\* the last event was handled by the contact history-set or contact-upsert
WaitsForAny == lastEv.kind \in {"messaging-history.set", "contacts.upsert"}

\* C39: when the contact history-set handler or the contact-upsert handler
\* ends without logging an error, every upsert it issued has succeeded; when
\* one of its upserts fails, it logs an error.
C39_SilentMeansAllWritten ==
  WaitsForAny => (logged = <<>> <=> lastEv.fails = {})

-----------------------------------------------------------------------------
\* ---- the batches partition the messages (SpecPartition)

\* the number of messages in the batches before batch b
RECURSIVE Before(_, _)
Before(batches, b) == IF b = 1 THEN 0 ELSE Before(batches, b - 1) + Len(batches[b - 1])

\* the batches one after the other are the sequence msgs
ConcatenationIs(batches, msgs) ==
  /\ Before(batches, Len(batches) + 1) = Len(msgs)
  /\ \A b \in DOMAIN batches :
       LET before == Before(batches, b)
       IN  \A k \in DOMAIN batches[b] : batches[b][k] = msgs[before + k]

\* the places of the batches that hold message m
PlacesOf(batches, m) ==
  UNION {{<<b, k>> : k \in {j \in DOMAIN batches[b] : batches[b][j] = m}} :
           b \in DOMAIN batches}

\* C40: for every message count the batches partition the messages: every
\* message is in exactly one batch, the batches one after the other are the
\* input, every batch has between 1 and BATCH_SIZE messages, every batch but
\* the last has BATCH_SIZE, one transaction is started per batch, and no
\* message gives no batch and no transaction.
C40_BatchesPartition ==
  tasks.built =>
    LET msgs == StatusHistory(tasks.count)
        size == getBatchConfig(tasks.count).BATCH_SIZE
        n == Len(tasks.batches)
    IN  /\ \A i \in DOMAIN msgs : Cardinality(PlacesOf(tasks.batches, msgs[i])) = 1
        /\ ConcatenationIs(tasks.batches, msgs)
        /\ \A b \in 1..n : Len(tasks.batches[b]) \in 1..size
        /\ \A b \in 1..(n - 1) : Len(tasks.batches[b]) = size
        /\ tasks.transactions = n
        /\ tasks.count = 0 => (tasks.batches = <<>> /\ tasks.transactions = 0)

\* 1026 messages were cut into 41 batches of 25 and a last batch of 1
C40_Witness ==
  /\ tasks.built
  /\ tasks.count = 1026
  /\ Len(tasks.batches) = 42
  /\ Len(tasks.batches[41]) = 25
  /\ Len(tasks.batches[42]) = 1
  /\ tasks.transactions = 42
====
